---- MODULE Spec2Model ----
(***************************************************************************)
(* Board Annotate (src/board_annotate.py): the layout run annotate_board   *)
(* with its two Gutters, the Annotations it draws, and the colour          *)
(* generator AnnotateColors.                                               *)
(*                                                                         *)
(* Lengths are exact rationals scaled to integers: one model unit is half  *)
(* of viewport_to_unit("1mm"), so the stroke width is 2 and the source's   *)
(* 0.5 * stroke_width is 1.  The reference geometries are chosen so that   *)
(* gutter_size * image_ratio and image_display_size * (w / h) are whole.   *)
(***************************************************************************)
EXTENDS Integers, Sequences, FiniteSets, Bags, TLC

VARIABLES
    cfg,          \* YAML_CONFIG: gutter, palette and colors keys
    board,        \* reference geometry: viewbox and the board image's box
    chip_items,   \* the chip catalog (Gio.ListStore of ChipItem)
    pc,           \* position of the running operation
    err,          \* the exception that ended it, "" when none
    gutter_a,     \* Gutter ABOVE or LEFT
    gutter_b,     \* Gutter BELOW or RIGHT
    iterator,     \* AnnotateColors.iterator: the list cycled and the position in it
    completed,    \* annotate_board's list of Annotation objects
    rect_style,   \* stroke colour of the user-drawn rectangles
    assignments,  \* the selection rows processed so far, in order
    next_calls,   \* how many times colors.next() has been called
    vresult,      \* outcome of validate_colors(cfg)
    in_call,      \* a call of next() is in progress inside color_gen
    returned,     \* the colours next() has returned, in order
    call,         \* a single function called on its own: its name and arguments
    result,       \* what that call returned or raised
    selection,    \* INKSCAPE_SVG.selection: the elements the user selected, in order
    window        \* SelectionWindow: the widgets' state

vars == <<cfg, board, chip_items, pc, err, gutter_a, gutter_b, iterator,
          completed, rect_style, assignments, next_calls, vresult, in_call,
          returned, call, result, selection, window>>

(***************************************************************************)
(* Bounds of the model.                                                    *)
(***************************************************************************)
MaxAssignments == 4     \* longest selection list of a layout run
MaxCustomColors == 2    \* longest custom colour list
MaxCalls == 85          \* calls of next() explored on one generator

(***************************************************************************)
(* Program constants.                                                      *)
(***************************************************************************)
StrokeWidth == 2        \* viewport_to_unit("1mm"), in model units
ImageRatioNum == 3      \* default image_ratio 0.6 = 3 / 5
ImageRatioDen == 5

(***************************************************************************)
(* AnnotateColors: the palettes.                                           *)
(***************************************************************************)
default ==
    << "maroon", "goldenrod", "blue", "coral", "orchid", "limegreen",
       "indigo", "red", "gold", "royalblue", "salmon", "plum",
       "yellowgreen", "midnightblue", "firebrick", "yellow",
       "steelblue", "orange", "blueviolet", "green", "purple",
       "orangered", "chartreuse", "cornflowerblue", "indianred",
       "violet", "magenta", "seagreen", "crimson", "greenyellow",
       "cyan", "deeppink", "slateblue", "hotpink", "springgreen",
       "tomato", "lawngreen", "dodgerblue", "pink", "lime",
       "deepskyblue", "olivedrab", "cadetblue", "navy", "darkorange",
       "turquoise", "teal", "skyblue", "forestgreen" >>

dark ==
    << "darkblue", "darkcyan", "darkgoldenrod", "darkgreen",
       "darkmagenta", "darkorange", "darkorchid", "darkred", "darksalmon",
       "darkseagreen", "darkslateblue", "darkturquoise", "darkviolet" >>

light ==
    << "lightblue", "lightcoral", "lightgreen", "lightpink",
       "lightsalmon", "lightseagreen", "lightskyblue", "lightsteelblue",
       "palegreen", "paleturquoise", "palevioletred" >>

medium ==
    << "mediumaquamarine", "mediumblue", "mediumorchid", "mediumpurple",
       "mediumseagreen", "mediumslateblue", "mediumspringgreen",
       "mediumturquoise", "mediumvioletred" >>

Range(s) == { s[i] : i \in 1..Len(s) }

\* The colour strings a custom list is drawn from; the last is no colour.
CustomColorChoices == { "#ff0000", "#00ff00", "notacolor" }

\* inkex.Color(color) succeeds: an SVG colour name or a hex colour.
IsColor(color) ==
    color \in Range(default) \cup Range(dark) \cup Range(light)
              \cup Range(medium) \cup { "#ff0000", "#00ff00" }

\* The first entry of colors that inkex.Color rejects, 0 when there is none.
FirstInvalid(colors) ==
    IF \A i \in 1..Len(colors) : IsColor(colors[i]) THEN 0
    ELSE CHOOSE i \in 1..Len(colors) :
            /\ ~IsColor(colors[i])
            /\ \A j \in 1..(i - 1) : IsColor(colors[j])

BuiltinPalettes == { "default", "light", "dark", "medium", "all", "all_random" }

\* validate_colors; the first variant is faulty: it accepts custom without a list.
validate_colors_no_list_check(config) ==
    IF ~config.has_palette THEN [status |-> "ok", named |-> ""]
    ELSE IF config.palette \in BuiltinPalettes
      THEN [status |-> "ok", named |-> ""]
    ELSE IF config.palette \in { "custom", "custom_random" }
      THEN IF config.has_colors /\ FirstInvalid(config.colors) # 0
             THEN [status |-> "invalid_color",
                   named |-> config.colors[FirstInvalid(config.colors)]]
             ELSE [status |-> "ok", named |-> ""]
    ELSE [status |-> "unknown_palette", named |-> config.palette]

validate_colors(config) ==
    IF ~config.has_palette THEN [status |-> "ok", named |-> ""]
    ELSE IF config.palette \in BuiltinPalettes
      THEN [status |-> "ok", named |-> ""]
    ELSE IF config.palette \in { "custom", "custom_random" }
      THEN IF config.has_colors
             THEN IF FirstInvalid(config.colors) # 0
                    THEN [status |-> "invalid_color",
                          named |-> config.colors[FirstInvalid(config.colors)]]
                    ELSE [status |-> "ok", named |-> ""]
             ELSE [status |-> "missing_list", named |-> ""]
    ELSE [status |-> "unknown_palette", named |-> config.palette]

(***************************************************************************)
(* AnnotateColors.__init__: the list the generator cycles.                 *)
(***************************************************************************)
PaletteOf(config) == IF config.has_palette THEN config.palette ELSE "default"

BaseList(config) ==
    CASE PaletteOf(config) = "default" -> default
      [] PaletteOf(config) = "light" -> light
      [] PaletteOf(config) = "dark" -> dark
      [] PaletteOf(config) = "medium" -> medium
      [] PaletteOf(config) \in { "all", "all_random" } ->
            default \o dark \o light \o medium
      [] OTHER -> config.colors

IsRandom(config) == PaletteOf(config) \in { "all_random", "custom_random" }

Permute(list, p) == [i \in 1..Len(list) |-> list[p[i]]]

Rotate(list, k) ==
    [i \in 1..Len(list) |-> list[((i - 1 + k) % Len(list)) + 1]]

Reverse(list) == [i \in 1..Len(list) |-> list[Len(list) + 1 - i]]

\* A faulty shuffle: the first colour overwrites the last one.
ShufflesLosingOne(list) ==
    IF Len(list) < 2 THEN { list }
    ELSE { [i \in 1..Len(list) |-> IF i = Len(list) THEN list[1] ELSE list[i]] }

\* random.shuffle(list): every order of a short list; of the long built-in
\* list a family of orders (rotations, the reversal, the list itself).
Shuffles(list) ==
    IF Len(list) <= MaxCustomColors
      THEN { Permute(list, p) : p \in Permutations(1..Len(list)) }
      ELSE { Rotate(list, k) : k \in 0..MaxCustomColors } \cup { Reverse(list) }

\* The generator objects __init__ can leave in self.iterator.
Iterators(config) ==
    { [colors |-> l, pos |-> 0, lap |-> 0] :
        l \in IF IsRandom(config) THEN Shuffles(BaseList(config))
              ELSE { BaseList(config) } }

\* custom_random shuffles YAML_CONFIG['colors'] itself.
ConfigAfterInit(config, it) ==
    IF PaletteOf(config) = "custom_random"
      THEN [config EXCEPT !.colors = it.colors]
      ELSE config

(***************************************************************************)
(* color_gen: while True: yield from colors.  pos counts the colours the   *)
(* current pass of yield from has handed out, lap is the parity of the     *)
(* passes of the while loop.                                               *)
(***************************************************************************)
\* A faulty restart: the new pass skips the first colour.
ResumeSkippingFirst(it) ==
    IF it.pos = Len(it.colors)
      THEN [it EXCEPT !.pos = IF Len(it.colors) > 1 THEN 1 ELSE 0, !.lap = 1 - @]
      ELSE it

\* The pass is exhausted: the while loop starts yield from again.
Resume(it) ==
    IF it.pos = Len(it.colors) THEN [it EXCEPT !.pos = 0, !.lap = 1 - @] ELSE it

\* next() never returns: each pass of the loop is empty.
Diverges(it) == Len(it.colors) = 0

YieldValue(it) == Resume(it).colors[Resume(it).pos + 1]

AfterYield(it) == [Resume(it) EXCEPT !.pos = @ + 1]

NoIterator == [colors |-> << >>, pos |-> 0, lap |-> 0]

(***************************************************************************)
(* Gutter.                                                                 *)
(***************************************************************************)
Abs(x) == IF x < 0 THEN -x ELSE x

\* image_display_size * (a / b), exact for the geometries of the model.
Scaled(size, a, b) == (size * a) \div b

\* A faulty Gutter: the offset starts one separator inside the canvas.
GutterInset(position, board_image) ==
    LET gutter_size ==
            CASE position = "ABOVE" -> board_image.top
              [] position = "BELOW" -> board_image.viewbox_height - board_image.bottom
              [] position = "LEFT" -> board_image.left
              [] position = "RIGHT" -> board_image.viewbox_width - board_image.right
        main_image_edge ==
            CASE position = "ABOVE" -> board_image.top
              [] position = "BELOW" -> board_image.bottom
              [] position = "LEFT" -> board_image.left
              [] position = "RIGHT" -> board_image.right
    IN  [ position |-> position,
          gutter_size |-> gutter_size,
          main_image_edge |-> main_image_edge,
          image_display_size |->
              (gutter_size * ImageRatioNum) \div ImageRatioDen - StrokeWidth,
          viewbox_width |-> board_image.viewbox_width,
          viewbox_height |-> board_image.viewbox_height,
          index |-> 0,
          offset |-> StrokeWidth ]

\* Gutter.__init__
Gutter(position, board_image) ==
    LET gutter_size ==
            CASE position = "ABOVE" -> board_image.top
              [] position = "BELOW" -> board_image.viewbox_height - board_image.bottom
              [] position = "LEFT" -> board_image.left
              [] position = "RIGHT" -> board_image.viewbox_width - board_image.right
        main_image_edge ==
            CASE position = "ABOVE" -> board_image.top
              [] position = "BELOW" -> board_image.bottom
              [] position = "LEFT" -> board_image.left
              [] position = "RIGHT" -> board_image.right
    IN  [ position |-> position,
          gutter_size |-> gutter_size,
          main_image_edge |-> main_image_edge,
          image_display_size |->
              (gutter_size * ImageRatioNum) \div ImageRatioDen - StrokeWidth,
          viewbox_width |-> board_image.viewbox_width,
          viewbox_height |-> board_image.viewbox_height,
          index |-> 0,
          offset |-> 0 ]

NoGutter ==
    [ position |-> "", gutter_size |-> 0, main_image_edge |-> 0,
      image_display_size |-> 0, viewbox_width |-> 0, viewbox_height |-> 0,
      index |-> 0, offset |-> 0 ]

Horizontal(g) == g.position \in { "ABOVE", "BELOW" }

\* Gutter.get_approximate_corners: two points <<x, y>>.
get_approximate_corners(g) ==
    IF Horizontal(g)
      THEN << <<g.offset, g.main_image_edge>>,
              <<g.offset + g.image_display_size, g.main_image_edge>> >>
      ELSE << <<g.main_image_edge, g.offset>>,
              <<g.main_image_edge, g.offset + g.image_display_size>> >>

Box(x, y, width, height) == [x |-> x, y |-> y, width |-> width, height |-> height]

NoBox == Box(0, 0, 0, 0)

\* A faulty get_position_size: for a chip without image the width is replaced
\* by the gutter's depth, the height by image_display_size.
get_position_size_mixed(g, width, height) ==
    LET w == IF width = 0 \/ height = 0 THEN g.gutter_size ELSE width
        h == IF width = 0 \/ height = 0 THEN g.image_display_size ELSE height
        half == StrokeWidth \div 2
    IN  CASE g.position = "ABOVE" ->
               Box(g.offset + half, 0 + half,
                   Scaled(g.image_display_size, w, h) + StrokeWidth,
                   g.main_image_edge - StrokeWidth)
          [] g.position = "BELOW" ->
               Box(g.offset + half, g.main_image_edge + half,
                   Scaled(g.image_display_size, w, h) + StrokeWidth,
                   g.viewbox_height - g.main_image_edge - StrokeWidth)
          [] g.position = "LEFT" ->
               Box(0 + half, g.offset + half,
                   g.main_image_edge - StrokeWidth,
                   Scaled(g.image_display_size, h, w) + StrokeWidth)
          [] g.position = "RIGHT" ->
               Box(g.main_image_edge + half, g.offset + half,
                   g.viewbox_width - g.main_image_edge - StrokeWidth,
                   Scaled(g.image_display_size, h, w) + StrokeWidth)

\* Gutter.get_position_size: where the surround goes.
get_position_size(g, width, height) ==
    LET w == IF width = 0 \/ height = 0 THEN g.image_display_size ELSE width
        h == IF width = 0 \/ height = 0 THEN g.image_display_size ELSE height
        half == StrokeWidth \div 2
    IN  CASE g.position = "ABOVE" ->
               Box(g.offset + half, 0 + half,
                   Scaled(g.image_display_size, w, h) + StrokeWidth,
                   g.main_image_edge - StrokeWidth)
          [] g.position = "BELOW" ->
               Box(g.offset + half, g.main_image_edge + half,
                   Scaled(g.image_display_size, w, h) + StrokeWidth,
                   g.viewbox_height - g.main_image_edge - StrokeWidth)
          [] g.position = "LEFT" ->
               Box(0 + half, g.offset + half,
                   g.main_image_edge - StrokeWidth,
                   Scaled(g.image_display_size, h, w) + StrokeWidth)
          [] g.position = "RIGHT" ->
               Box(g.main_image_edge + half, g.offset + half,
                   g.viewbox_width - g.main_image_edge - StrokeWidth,
                   Scaled(g.image_display_size, h, w) + StrokeWidth)

\* A faulty get_image_position_size: LEFT and RIGHT scale by width / height
\* as ABOVE and BELOW do.
get_image_position_size_one_ratio(g, width, height) ==
    CASE g.position = "ABOVE" ->
           Box(g.offset + StrokeWidth,
               g.main_image_edge - g.image_display_size - StrokeWidth,
               Scaled(g.image_display_size, width, height),
               g.image_display_size)
      [] g.position = "BELOW" ->
           Box(g.offset + StrokeWidth, g.main_image_edge + StrokeWidth,
               Scaled(g.image_display_size, width, height),
               g.image_display_size)
      [] g.position = "LEFT" ->
           Box(g.main_image_edge - g.image_display_size - StrokeWidth,
               g.offset + StrokeWidth,
               g.image_display_size,
               Scaled(g.image_display_size, width, height))
      [] g.position = "RIGHT" ->
           Box(g.main_image_edge + StrokeWidth, g.offset + StrokeWidth,
               g.image_display_size,
               Scaled(g.image_display_size, width, height))

\* Gutter.get_image_position_size: where the chip image goes.
get_image_position_size(g, width, height) ==
    CASE g.position = "ABOVE" ->
           Box(g.offset + StrokeWidth,
               g.main_image_edge - g.image_display_size - StrokeWidth,
               Scaled(g.image_display_size, width, height),
               g.image_display_size)
      [] g.position = "BELOW" ->
           Box(g.offset + StrokeWidth, g.main_image_edge + StrokeWidth,
               Scaled(g.image_display_size, width, height),
               g.image_display_size)
      [] g.position = "LEFT" ->
           Box(g.main_image_edge - g.image_display_size - StrokeWidth,
               g.offset + StrokeWidth,
               g.image_display_size,
               Scaled(g.image_display_size, height, width))
      [] g.position = "RIGHT" ->
           Box(g.main_image_edge + StrokeWidth, g.offset + StrokeWidth,
               g.image_display_size,
               Scaled(g.image_display_size, height, width))

\* A faulty get_text_position_size: second is ignored, so the description
\* box lies on the title box.
get_text_position_size_unsplit(g, width, height, second) ==
    LET w == IF width = 0 \/ height = 0 THEN g.image_display_size ELSE width
        h == IF width = 0 \/ height = 0 THEN g.image_display_size ELSE height
        width_scaled_image_size == Scaled(g.image_display_size, w, h)
        height_scaled_image_size == Scaled(g.image_display_size, h, w)
        edge_stroke_image_offset ==
            g.main_image_edge + StrokeWidth + g.image_display_size
        twice_above_height ==
            g.main_image_edge - g.image_display_size - 2 * StrokeWidth
        twice_below_height ==
            g.viewbox_height - StrokeWidth - edge_stroke_image_offset
        twice_vertical_height == height_scaled_image_size
    IN  CASE g.position = "ABOVE" ->
               Box(2 * (g.offset + StrokeWidth), 2 * StrokeWidth,
                   2 * width_scaled_image_size, twice_above_height)
          [] g.position = "BELOW" ->
               Box(2 * (g.offset + StrokeWidth), 2 * edge_stroke_image_offset,
                   2 * width_scaled_image_size, twice_below_height)
          [] g.position = "LEFT" ->
               Box(2 * StrokeWidth, 2 * (g.offset + StrokeWidth),
                   2 * (g.main_image_edge - g.image_display_size - StrokeWidth),
                   twice_vertical_height)
          [] g.position = "RIGHT" ->
               Box(2 * edge_stroke_image_offset, 2 * (g.offset + StrokeWidth),
                   2 * (g.viewbox_width - StrokeWidth - edge_stroke_image_offset),
                   twice_vertical_height)

\* Gutter.get_text_position_size: where the title (second = FALSE) and the
\* description (second = TRUE) go.  The source halves lengths (0.5 * ...);
\* this box is given in half units, every coordinate doubled, so that the
\* halves are exact.
get_text_position_size(g, width, height, second) ==
    LET w == IF width = 0 \/ height = 0 THEN g.image_display_size ELSE width
        h == IF width = 0 \/ height = 0 THEN g.image_display_size ELSE height
        width_scaled_image_size == Scaled(g.image_display_size, w, h)
        height_scaled_image_size == Scaled(g.image_display_size, h, w)
        edge_stroke_image_offset ==
            g.main_image_edge + StrokeWidth + g.image_display_size
        twice_above_height ==
            g.main_image_edge - g.image_display_size - 2 * StrokeWidth
        twice_below_height ==
            g.viewbox_height - StrokeWidth - edge_stroke_image_offset
        twice_vertical_height == height_scaled_image_size
    IN  CASE g.position = "ABOVE" ->
               Box(2 * (g.offset + StrokeWidth),
                   2 * StrokeWidth + (IF second THEN twice_above_height ELSE 0),
                   2 * width_scaled_image_size,
                   twice_above_height)
          [] g.position = "BELOW" ->
               Box(2 * (g.offset + StrokeWidth),
                   2 * edge_stroke_image_offset
                     + (IF second THEN twice_below_height ELSE 0),
                   2 * width_scaled_image_size,
                   twice_below_height)
          [] g.position = "LEFT" ->
               Box(2 * StrokeWidth,
                   2 * (g.offset + StrokeWidth)
                     + (IF second THEN twice_vertical_height ELSE 0),
                   2 * (g.main_image_edge - g.image_display_size - StrokeWidth),
                   twice_vertical_height)
          [] g.position = "RIGHT" ->
               Box(2 * edge_stroke_image_offset,
                   2 * (g.offset + StrokeWidth)
                     + (IF second THEN twice_vertical_height ELSE 0),
                   2 * (g.viewbox_width - StrokeWidth - edge_stroke_image_offset),
                   twice_vertical_height)

\* A faulty bounding box: the extents keep the sign of the rectangle's attributes.
bounding_box_signed(rect) == [width |-> rect.width, height |-> rect.height]

\* surround.bounding_box(): the box around the rectangle's path
\* M x,y h width v height h -width z, so its extents are never negative.
bounding_box(rect) == [width |-> Abs(rect.width), height |-> Abs(rect.height)]

\* A faulty increment: the offset moves by the extent alone, without the gap.
increment_without_stroke(g, width, height) ==
    [g EXCEPT !.index = @ + 1,
              !.offset = @ + (IF Horizontal(g) THEN width ELSE height)]

\* A faulty increment: the offset is assigned, not added to.
increment_assigning(g, width, height) ==
    [g EXCEPT !.index = @ + 1,
              !.offset = (IF Horizontal(g) THEN width ELSE height) + StrokeWidth]

\* A faulty increment: the offset moves, the index is not counted up.
increment_offset_only(g, width, height) ==
    [g EXCEPT !.offset = @ + (IF Horizontal(g) THEN width ELSE height) + StrokeWidth]

\* A faulty increment: width and height are taken for each other.
increment_swapped(g, width, height) ==
    [g EXCEPT !.index = @ + 1,
              !.offset = @ + (IF Horizontal(g) THEN height ELSE width) + StrokeWidth]

\* Gutter.increment
increment(g, width, height) ==
    [g EXCEPT !.index = @ + 1,
              !.offset = @ + (IF Horizontal(g) THEN width ELSE height) + StrokeWidth]

(***************************************************************************)
(* closest_gutter.  math.dist is compared exactly: the least distance to a *)
(* corner is the root of the least squared distance, and the two sums of   *)
(* roots are compared by squaring twice.                                   *)
(***************************************************************************)
Dist2(a, b) == (a[1] - b[1]) * (a[1] - b[1]) + (a[2] - b[2]) * (a[2] - b[2])

Min(S) == CHOOSE x \in S : \A y \in S : x <= y

\* The user-drawn rectangle's corners under its transform (a translation).
rect_corners(rect) ==
    { <<rect.left + rect.tx, rect.top + rect.ty>>,
      <<rect.right + rect.tx, rect.top + rect.ty>>,
      <<rect.left + rect.tx, rect.bottom + rect.ty>>,
      <<rect.right + rect.tx, rect.bottom + rect.ty>> }

\* sorted([math.dist(corner, c) ...])[0], squared.
NearestDist2(rect, c) == Min({ Dist2(x, c) : x \in rect_corners(rect) })

\* The sign of E * E - G * G * N for E, G, N >= 0 and N < 46340 * 46340,
\* computed without leaving 32-bit integers.
CmpSqProd(E, G, N) ==
    IF G = 0 THEN (IF E > 0 THEN 1 ELSE 0)
    ELSE LET k == E \div G
             rem == E % G
         IN  IF k >= 46340 THEN 1
             ELSE IF k * k > N THEN 1
             ELSE IF (k + 1) * (k + 1) <= N THEN -1
             ELSE LET whole == 2 * k * rem + ((rem * rem) \div G)
                      frac == (rem * rem) % G
                      rhs == (N - k * k) * G
                  IN  IF whole > rhs THEN 1
                      ELSE IF whole < rhs THEN -1
                      ELSE IF frac > 0 THEN 1 ELSE 0

\* sqrt(p) + sqrt(q) <= sqrt(r) + sqrt(s)
SumRootsLe(p, q, r, s) ==
    LET D == r + s - p - q
    IN  IF D >= 0
          THEN \/ p * q <= r * s
               \/ LET E == 4 * p * q - D * D - 4 * r * s
                  IN  E <= 0 \/ CmpSqProd(E, 4 * D, r * s) <= 0
          ELSE /\ p * q < r * s
               /\ LET F == 4 * r * s - 4 * p * q - D * D
                  IN  F >= 0 /\ CmpSqProd(F, 4 * (-D), p * q) >= 0

\* The two smallest of the eight squared distances between the rectangle's
\* corners and the two points cs.
TwoNearestDist2(rect, cs) ==
    LET pairs == { <<x, k>> : x \in rect_corners(rect), k \in { 1, 2 } }
        d(p) == Dist2(p[1], cs[p[2]])
        first == CHOOSE p \in pairs : \A q \in pairs : d(p) <= d(q)
        rest == pairs \ { first }
        second == CHOOSE p \in rest : \A q \in rest : d(p) <= d(q)
    IN  << d(first), d(second) >>

\* A faulty closest_gutter: the score is the sum of the two smallest of the
\* eight distances, whichever gutter corner they go to.
closest_gutter_two_smallest(rect, ga, gb) ==
    LET na == TwoNearestDist2(rect, get_approximate_corners(ga))
        nb == TwoNearestDist2(rect, get_approximate_corners(gb))
    IN  IF SumRootsLe(na[1], na[2], nb[1], nb[2]) THEN "a" ELSE "b"

\* A faulty closest_gutter: < in place of <=, so a tie goes to gutter_b.
closest_gutter_strict(rect, ga, gb) ==
    LET ca == get_approximate_corners(ga)
        cb == get_approximate_corners(gb)
    IN  IF ~SumRootsLe(NearestDist2(rect, cb[1]), NearestDist2(rect, cb[2]),
                       NearestDist2(rect, ca[1]), NearestDist2(rect, ca[2]))
          THEN "a" ELSE "b"

\* closest_gutter: "a" or "b"
closest_gutter(rect, ga, gb) ==
    LET ca == get_approximate_corners(ga)
        cb == get_approximate_corners(gb)
    IN  IF SumRootsLe(NearestDist2(rect, ca[1]), NearestDist2(rect, ca[2]),
                      NearestDist2(rect, cb[1]), NearestDist2(rect, cb[2]))
          THEN "a" ELSE "b"

\* A faulty choice: the fuller gutter is never passed over.
ChooseGutterUnbalanced(rect, ga, gb) == closest_gutter(rect, ga, gb)

\* A faulty choice: a gutter is passed over only once it is 3 ahead.
ChooseGutterLate(rect, ga, gb) ==
    IF ga.index - gb.index > 2 THEN "b"
    ELSE IF gb.index - ga.index > 2 THEN "a"
    ELSE closest_gutter(rect, ga, gb)

\* A faulty choice: only gutter_a being ahead is looked at.
ChooseGutterOneSided(rect, ga, gb) ==
    IF ga.index - gb.index > 1 THEN "b"
    ELSE closest_gutter(rect, ga, gb)

\* annotate_board, lines 942-948: the gutter a new Annotation is drawn in.
ChooseGutter(rect, ga, gb) ==
    IF ga.index - gb.index > 1 THEN "b"
    ELSE IF gb.index - ga.index > 1 THEN "a"
    ELSE closest_gutter(rect, ga, gb)

(***************************************************************************)
(* Inputs of a layout run.                                                 *)
(***************************************************************************)
\* Reference geometries: the viewbox and the board image's box.  In the
\* second the board touches the top and left edges, so the ABOVE and LEFT
\* gutters have no depth.
Boards ==
    { [viewbox_width |-> 40, viewbox_height |-> 40,
       left |-> 10, top |-> 10, right |-> 30, bottom |-> 30],
      [viewbox_width |-> 40, viewbox_height |-> 40,
       left |-> 0, top |-> 0, right |-> 30, bottom |-> 30] }

\* User-drawn rectangles; tx, ty is the translation of their transform.
Rectangles ==
    { [id |-> "r1", left |-> 11, top |-> 11, right |-> 13, bottom |-> 13, tx |-> 0, ty |-> 0],
      [id |-> "r2", left |-> 17, top |-> 11, right |-> 19, bottom |-> 13, tx |-> 0, ty |-> 0],
      [id |-> "r3", left |-> 17, top |-> 27, right |-> 19, bottom |-> 29, tx |-> 0, ty |-> 0],
      [id |-> "r4", left |-> 11, top |-> 15, right |-> 13, bottom |-> 17, tx |-> 14, ty |-> 10],
      [id |-> "r5", left |-> 27, top |-> 11, right |-> 29, bottom |-> 13, tx |-> 0, ty |-> 0] }

RectIds == { r.id : r \in Rectangles }

\* Chip catalogs; a chip without photo has image size 0 x 0.  The second
\* catalog lists the name A twice.
Chip(name, w, h) == [name |-> name, image_width |-> w, image_height |-> h]

Catalogs ==
    { << Chip("A", 0, 0), Chip("B", 2, 1), Chip("C", 1, 2) >>,
      << Chip("A", 1, 1), Chip("B", 0, 0), Chip("A", 2, 1) >> }

\* CHIP_SELECT values of the selection rows; no catalog holds X.
ChipNames == { "A", "B", "C", "X" }

Config(gutter, has_palette, palette, has_colors, colors) ==
    [gutter |-> gutter, has_palette |-> has_palette, palette |-> palette,
     has_colors |-> has_colors, colors |-> colors]

LayoutConfigs ==
    { Config(g, p[1], p[2], p[3], p[4]) :
        g \in { "horizontal", "vertical", "diagonal" },
        p \in { <<FALSE, "", FALSE, << >> >>,
                <<TRUE, "custom", TRUE, << "#ff0000", "#00ff00" >> >>,
                <<TRUE, "custom", TRUE, << >> >>,
                <<TRUE, "custom_random", TRUE, << "#ff0000", "#00ff00" >> >>,
                <<TRUE, "custom", FALSE, << >> >>,
                <<TRUE, "rainbow", FALSE, << >> >> } }

\* Twice the centre coordinate sort_check_selection sorts by.
SortKey(rect, gutter) ==
    IF gutter = "horizontal" THEN rect.left + rect.right + 2 * rect.tx
    ELSE rect.top + rect.bottom + 2 * rect.ty

(***************************************************************************)
(* Annotation.                                                             *)
(***************************************************************************)
\* Annotation.__init__
Annotation(rect, chip, color) ==
    [ name |-> chip.name,
      rectangle |-> rect.id,
      color |-> color,
      image_width |-> chip.image_width,
      image_height |-> chip.image_height,
      gutter |-> "none",
      svg_image |-> NoBox,
      surround |-> NoBox,
      title_box |-> NoBox,
      desc_box |-> NoBox,
      connectors |-> << >> ]

\* Annotation.draw_connector: the path from the rectangle to the surround of
\* the Annotation completed[target].
draw_connector(annotation, target) ==
    [start |-> annotation.rectangle, end |-> target, color |-> annotation.color]

\* A faulty draw_existing: the colour drawn for the duplicate is kept.
draw_existing_own_color(annotation, duplicate) == annotation

\* A faulty draw_existing: the duplicate takes a place and a surround too.
draw_existing_redrawn(annotation, duplicate) ==
    [annotation EXCEPT !.color = duplicate.color,
                       !.gutter = duplicate.gutter,
                       !.surround = duplicate.surround]

\* Annotation.draw_existing, line 728: self.color = duplicate.color
draw_existing(annotation, duplicate) ==
    [annotation EXCEPT !.color = duplicate.color]

\* A faulty draw: the call of draw_connector is missing.
draw_without_connector(annotation, key, g, idx) ==
    [annotation EXCEPT
       !.gutter = key,
       !.surround = get_position_size(g, annotation.image_width,
                                      annotation.image_height)]

\* A faulty draw: the gutter is incremented as soon as the surround is drawn,
\* and the text is laid out in the gutter as it is after that.
draw_incrementing_early(annotation, key, g, idx) ==
    LET surround == get_position_size(g, annotation.image_width,
                                      annotation.image_height)
        later == increment(g, bounding_box(surround).width,
                           bounding_box(surround).height)
        placed ==
            [annotation EXCEPT
               !.gutter = key,
               !.svg_image =
                   IF annotation.image_width > 0 /\ annotation.image_height > 0
                     THEN get_image_position_size(g, annotation.image_width,
                                                  annotation.image_height)
                     ELSE NoBox,
               !.surround = surround,
               !.title_box = get_text_position_size(later, annotation.image_width,
                                                    annotation.image_height, FALSE),
               !.desc_box = get_text_position_size(later, annotation.image_width,
                                                   annotation.image_height, TRUE)]
    IN  [placed EXCEPT !.connectors = << draw_connector(placed, idx) >>]

\* Annotation.draw up to update_rectangle_style: the Annotation as layer
\* number idx, drawn in gutter g (key "a" or "b").  title_box and desc_box
\* are in half units.
draw(annotation, key, g, idx) ==
    LET placed ==
            [annotation EXCEPT
               !.gutter = key,
               !.svg_image =
                   IF annotation.image_width > 0 /\ annotation.image_height > 0
                     THEN get_image_position_size(g, annotation.image_width,
                                                  annotation.image_height)
                     ELSE NoBox,
               !.surround = get_position_size(g, annotation.image_width,
                                              annotation.image_height),
               !.title_box = get_text_position_size(g, annotation.image_width,
                                                    annotation.image_height, FALSE),
               !.desc_box = get_text_position_size(g, annotation.image_width,
                                                   annotation.image_height, TRUE)]
    IN  [placed EXCEPT !.connectors = << draw_connector(placed, idx) >>]

\* A faulty search: of the Annotations of the same name the one completed
\* last is taken (duplicate[-1]).
duplicate_of_newest(done, annotation) ==
    { i \in 1..Len(done) :
        /\ done[i].name = annotation.name
        /\ \A k \in (i + 1)..Len(done) : done[k].name # annotation.name }

\* A faulty search: only the Annotation completed last is compared.
duplicate_of_last(done, annotation) ==
    { i \in 1..Len(done) : i = Len(done) /\ done[i].name = annotation.name }

\* Lines 933-934: the completed Annotations of the same name.
duplicate_of(done, annotation) ==
    { i \in 1..Len(done) : done[i].name = annotation.name }

\* The catalog rows whose name is the selection's CHIP_SELECT.
Matches(chip_name) ==
    { i \in 1..Len(chip_items) : chip_items[i].name = chip_name }

Max(S) == CHOOSE x \in S : \A y \in S : x >= y

\* The generator after n more colours have been taken from it.
RECURSIVE Advance(_, _)
Advance(it, n) == IF n = 0 THEN it ELSE Advance(AfterYield(it), n - 1)

(***************************************************************************)
(* annotate_board.                                                         *)
(***************************************************************************)
NoResult == [status |-> "", named |-> ""]

\* No function is being called on its own.
NoCall == [fn |-> ""]

\* No SelectionWindow has been built.
NoWindow ==
    [path |-> 0, row |-> 0, reverse |-> FALSE, sensitive |-> FALSE, remaining |-> -1]

Init ==
    /\ cfg \in LayoutConfigs
    /\ board \in Boards
    /\ chip_items \in Catalogs
    /\ pc = "start"
    /\ err = ""
    /\ gutter_a = NoGutter
    /\ gutter_b = NoGutter
    /\ iterator = NoIterator
    /\ completed = << >>
    /\ rect_style = [r \in RectIds |-> ""]
    /\ assignments = << >>
    /\ next_calls = 0
    /\ vresult = NoResult
    /\ in_call = FALSE
    /\ returned = << >>
    /\ call = NoCall
    /\ result = NoCall
    /\ selection = << >>
    /\ window = NoWindow

\* A faulty setup: AnnotateColors() does not validate the configuration.
SetupWithoutValidation ==
    /\ pc = "start"
    /\ UNCHANGED <<board, chip_items, completed, rect_style, assignments,
                   next_calls, vresult, in_call, returned, call, result, selection, window>>
    /\ IF cfg.gutter \notin { "horizontal", "vertical" }
         THEN /\ pc' = "error"
              /\ err' = "ValueError"
              /\ UNCHANGED <<cfg, gutter_a, gutter_b, iterator>>
         ELSE /\ gutter_a' = Gutter(IF cfg.gutter = "horizontal" THEN "ABOVE" ELSE "LEFT", board)
              /\ gutter_b' = Gutter(IF cfg.gutter = "horizontal" THEN "BELOW" ELSE "RIGHT", board)
              /\ \E it \in Iterators(cfg) :
                    /\ iterator' = it
                    /\ cfg' = ConfigAfterInit(cfg, it)
              /\ pc' = "loop"
              /\ err' = ""

\* Lines 878-891: the gutters, then the colour generator.
Setup ==
    /\ pc = "start"
    /\ UNCHANGED <<board, chip_items, completed, rect_style, assignments,
                   next_calls, vresult, in_call, returned, call, result, selection, window>>
    /\ IF cfg.gutter \notin { "horizontal", "vertical" }
         THEN /\ pc' = "error"
              /\ err' = "ValueError"
              /\ UNCHANGED <<cfg, gutter_a, gutter_b, iterator>>
         ELSE /\ gutter_a' = Gutter(IF cfg.gutter = "horizontal" THEN "ABOVE" ELSE "LEFT", board)
              /\ gutter_b' = Gutter(IF cfg.gutter = "horizontal" THEN "BELOW" ELSE "RIGHT", board)
              /\ IF validate_colors(cfg).status # "ok"
                   THEN /\ pc' = "error"
                        /\ err' = "AbortExtension"
                        /\ UNCHANGED <<cfg, iterator>>
                   ELSE /\ \E it \in Iterators(cfg) :
                              /\ iterator' = it
                              /\ cfg' = ConfigAfterInit(cfg, it)
                        /\ pc' = "loop"
                        /\ err' = ""

\* Lines 892-950: one pass of the loop, for the selection row (rect, chip_name).
ProcessSelection(rect, chip_name) ==
    /\ pc = "loop"
    /\ Len(assignments) < MaxAssignments
    /\ \A i \in 1..Len(assignments) : assignments[i].rect.id # rect.id
    /\ assignments # << >> =>
          SortKey(assignments[Len(assignments)].rect, cfg.gutter) <= SortKey(rect, cfg.gutter)
    /\ assignments' = Append(assignments, [rect |-> rect, chip |-> chip_name])
    /\ UNCHANGED <<cfg, board, chip_items, vresult, in_call, returned, call, result, selection, window>>
    /\ LET n == Cardinality(Matches(chip_name))
       IN  IF n = 0
             THEN \* annotation is None
                  /\ pc' = "error"
                  /\ err' = "AssertionError"
                  /\ UNCHANGED <<gutter_a, gutter_b, iterator, completed,
                                 rect_style, next_calls>>
           ELSE IF Diverges(iterator)
             THEN \* colors.next() does not return
                  /\ pc' = "in_next"
                  /\ next_calls' = next_calls + 1
                  /\ UNCHANGED <<err, gutter_a, gutter_b, iterator, completed,
                                 rect_style>>
           ELSE LET color == YieldValue(Advance(iterator, n - 1))
                    chip == chip_items[Max(Matches(chip_name))]
                    annotation == Annotation(rect, chip, color)
                    duplicate == duplicate_of(completed, annotation)
                IN  /\ iterator' = Advance(iterator, n)
                    /\ next_calls' = next_calls + n
                    /\ IF duplicate # {}
                         THEN LET first == Min(duplicate)
                                  joined == draw_existing(annotation, completed[first])
                              IN  IF completed[first].gutter = "none"
                                    THEN \* duplicate.surround is None
                                         /\ pc' = "error"
                                         /\ err' = "AttributeError"
                                         /\ UNCHANGED <<gutter_a, gutter_b,
                                                        completed, rect_style>>
                                    ELSE /\ completed' =
                                              Append([completed EXCEPT
                                                        ![first].connectors =
                                                            Append(@, draw_connector(joined, first))],
                                                     joined)
                                         /\ rect_style' = [rect_style EXCEPT ![rect.id] = joined.color]
                                         /\ UNCHANGED <<pc, err, gutter_a, gutter_b>>
                         ELSE LET key == ChooseGutter(rect, gutter_a, gutter_b)
                                  g == IF key = "a" THEN gutter_a ELSE gutter_b
                                  drawn == draw(annotation, key, g, Len(completed) + 1)
                                  surround_bb == bounding_box(drawn.surround)
                                  moved == increment(g, surround_bb.width, surround_bb.height)
                              IN  /\ completed' = Append(completed, drawn)
                                  /\ rect_style' = [rect_style EXCEPT ![rect.id] = drawn.color]
                                  /\ gutter_a' = IF key = "a" THEN moved ELSE gutter_a
                                  /\ gutter_b' = IF key = "b" THEN moved ELSE gutter_b
                                  /\ UNCHANGED <<pc, err>>

\* The selection list is exhausted: annotate_board returns.
Finish ==
    /\ pc = "loop"
    /\ pc' = "done"
    /\ UNCHANGED <<cfg, board, chip_items, err, gutter_a, gutter_b, iterator,
                   completed, rect_style, assignments, next_calls, vresult,
                   in_call, returned, call, result, selection, window>>

Next ==
    \/ Setup
    \/ \E rect \in Rectangles, chip_name \in ChipNames : ProcessSelection(rect, chip_name)
    \/ Finish

Spec == Init /\ [][Next]_vars

\* The interpreter keeps running annotate_board: once the rows are used up
\* the loop is left and the function returns.
FairSpec == Init /\ [][Next]_vars /\ WF_vars(Finish)

(***************************************************************************)
(* AnnotateColors on its own: validate_colors, __init__, and calls of      *)
(* next() that run color_gen one step at a time.                           *)
(***************************************************************************)
RECURSIVE SeqsUpTo(_, _)
SeqsUpTo(S, n) ==
    IF n = 0 THEN { << >> }
    ELSE LET shorter == SeqsUpTo(S, n - 1)
         IN  shorter \cup { Append(q, x) : q \in shorter, x \in S }

ColorConfigs ==
    { Config("horizontal", TRUE, p, FALSE, << >>) :
        p \in BuiltinPalettes \cup { "custom", "custom_random", "rainbow" } }
    \cup { Config("horizontal", FALSE, "", FALSE, << >>) }
    \cup { Config("horizontal", TRUE, p, TRUE, c) :
             p \in { "default", "custom", "custom_random", "rainbow" },
             c \in SeqsUpTo(CustomColorChoices, MaxCustomColors) }
    \cup { Config("horizontal", FALSE, "", TRUE, c) :
             c \in SeqsUpTo(CustomColorChoices, MaxCustomColors) }

ColorInit ==
    /\ cfg \in ColorConfigs
    /\ board \in { b \in Boards : b.top = 10 }
    /\ chip_items = << >>
    /\ pc = "config"
    /\ err = ""
    /\ gutter_a = NoGutter
    /\ gutter_b = NoGutter
    /\ iterator = NoIterator
    /\ completed = << >>
    /\ rect_style = [r \in RectIds |-> ""]
    /\ assignments = << >>
    /\ next_calls = 0
    /\ vresult = NoResult
    /\ in_call = FALSE
    /\ returned = << >>
    /\ call = NoCall
    /\ result = NoCall
    /\ selection = << >>
    /\ window = NoWindow

layout_vars ==
    <<board, chip_items, gutter_a, gutter_b, completed, rect_style, assignments,
      call, result, selection, window>>

\* effect, line 84: AnnotateColors.validate_colors(YAML_CONFIG)
Validate ==
    /\ pc = "config"
    /\ vresult' = validate_colors(cfg)
    /\ pc' = "validated"
    /\ UNCHANGED <<cfg, err, iterator, next_calls, in_call, returned>>
    /\ UNCHANGED layout_vars

\* AnnotateColors.__init__
Construct ==
    /\ pc = "validated"
    /\ IF validate_colors(cfg).status # "ok"
         THEN /\ pc' = "error"
              /\ err' = "AbortExtension"
              /\ UNCHANGED <<cfg, iterator>>
         ELSE /\ \E it \in Iterators(cfg) :
                    /\ iterator' = it
                    /\ cfg' = ConfigAfterInit(cfg, it)
              /\ pc' = "ready"
              /\ err' = ""
    /\ UNCHANGED <<vresult, next_calls, in_call, returned>>
    /\ UNCHANGED layout_vars

\* AnnotateColors.next: next(self.iterator) resumes the generator.
CallNext ==
    /\ pc = "ready"
    /\ ~in_call
    /\ next_calls < MaxCalls
    /\ in_call' = TRUE
    /\ next_calls' = next_calls + 1
    /\ UNCHANGED <<cfg, pc, err, iterator, vresult, returned>>
    /\ UNCHANGED layout_vars

\* color_gen: yield from hands out the next colour, and next() returns it.
GenYield ==
    /\ in_call
    /\ iterator.pos < Len(iterator.colors)
    /\ returned' = Append(returned, YieldValue(iterator))
    /\ iterator' = AfterYield(iterator)
    /\ in_call' = FALSE
    /\ UNCHANGED <<cfg, pc, err, next_calls, vresult>>
    /\ UNCHANGED layout_vars

\* color_gen: yield from is exhausted and while True starts it again.
GenRestart ==
    /\ in_call
    /\ iterator.pos = Len(iterator.colors)
    /\ iterator' = Resume(iterator)
    /\ UNCHANGED <<cfg, pc, err, next_calls, vresult, in_call, returned>>
    /\ UNCHANGED layout_vars

ColorNext ==
    \/ Validate
    \/ Construct
    \/ CallNext
    \/ GenYield
    \/ GenRestart

ColorSpec == ColorInit /\ [][ColorNext]_vars

\* The interpreter keeps running the generator it has resumed.
FairColorSpec ==
    ColorInit /\ [][ColorNext]_vars /\ WF_vars(GenYield) /\ WF_vars(GenRestart)

(***************************************************************************)
(* Single functions called on their own, on arguments drawn from the sets  *)
(* below: the box functions of Gutter, closest_gutter, find_board_image.   *)
(***************************************************************************)
\* Reference geometries of the calls: those of the layout runs and a larger
\* one whose four gutters are 30 deep.
GeometryBoards ==
    Boards \cup { [viewbox_width |-> 90, viewbox_height |-> 90,
                   left |-> 30, top |-> 30, right |-> 60, bottom |-> 60] }

Positions == { "ABOVE", "BELOW", "LEFT", "RIGHT" }

\* Gutters as constructed, and as they are after one Annotation.
GeometryGutters ==
    { [Gutter(p, b) EXCEPT !.index = io[1], !.offset = io[2]] :
        p \in Positions, b \in GeometryBoards, io \in { <<0, 0>>, <<1, 12>> } }

\* image_width, image_height of an Annotation; 0 where there is no pixbuf.
ImageSizes == { <<0, 0>>, <<0, 1>>, <<2, 0>>, <<1, 1>>, <<2, 1>>, <<1, 2>> }

NoRectangle ==
    [id |-> "", left |-> 0, top |-> 0, right |-> 0, bottom |-> 0, tx |-> 0, ty |-> 0]

Call(fn, g, gb, size, rect, doc) ==
    [fn |-> fn, gutter |-> g, gutter_b |-> gb, width |-> size[1],
     height |-> size[2], rectangle |-> rect, document |-> doc]

BoxCalls ==
    { Call(fn, g, NoGutter, size, NoRectangle, << >>) :
        fn \in { "get_position_size", "draw_text", "draw" },
        g \in GeometryGutters, size \in ImageSizes }
    \cup
    { Call("get_image_position_size", g, NoGutter, size, NoRectangle, << >>) :
        g \in GeometryGutters,
        size \in { z \in ImageSizes : z[1] > 0 /\ z[2] > 0 } }

\* Rectangles handed to closest_gutter: those of the layout runs, and two
\* in the middle of the board, one of them moved there by its transform.
ClosestRectangles ==
    Rectangles \cup
    { [id |-> "r6", left |-> 19, top |-> 19, right |-> 21, bottom |-> 21, tx |-> 0, ty |-> 0],
      [id |-> "r7", left |-> 1, top |-> 3, right |-> 5, bottom |-> 5, tx |-> 17, ty |-> 16] }

\* The offsets a gutter has after 0, 1 or 2 Annotations.
ClosestOffsets == { 0, 12, 20 }

ClosestCalls ==
    { Call("closest_gutter",
           [Gutter(pp[1], b) EXCEPT !.offset = oa],
           [Gutter(pp[2], b) EXCEPT !.offset = ob],
           <<0, 0>>, rect, << >>) :
        pp \in { <<"ABOVE", "BELOW">>, <<"LEFT", "RIGHT">> },
        b \in Boards, oa \in ClosestOffsets, ob \in ClosestOffsets,
        rect \in ClosestRectangles }

\* An element of the document: its id, its tag and its width and height
\* attributes; sized is FALSE when an attribute is absent.
Element(id, tag, size) ==
    [id |-> id, tag |-> tag, sized |-> size[1] >= 0,
     width |-> IF size[1] >= 0 THEN size[1] ELSE 0,
     height |-> IF size[1] >= 0 THEN size[2] ELSE 0]

\* getElementById found nothing: None.
NoElement == [id |-> "", tag |-> "", sized |-> FALSE, width |-> 0, height |-> 0]

MaxElements == 3

\* What one element of a document can be, but for its id.
ElementKinds ==
    { <<"image", size>> : size \in { <<0, 2>>, <<1, 2>>, <<2, 1>>, <<2, 2>>, <<-1, -1>> } }
    \cup { <<"rect", <<2, 2>> >> }

\* Documents of up to MaxElements elements; at most one has the id 'board'.
Documents ==
    UNION { { [i \in 1..n |->
                 Element(IF i = flagged THEN "board" ELSE "", kinds[i][1], kinds[i][2])] :
              kinds \in [1..n -> ElementKinds], flagged \in 0..n } :
            n \in 0..MaxElements }

FindCalls ==
    { Call("find_board_image", NoGutter, NoGutter, <<0, 0>>, NoRectangle, doc) :
        doc \in Documents }

FunctionCalls == BoxCalls \cup ClosestCalls \cup FindCalls

Returned(value) == [raised |-> "", value |-> value]

Raised(exception) == [raised |-> exception, value |-> ""]

FunctionInit ==
    /\ cfg \in { c \in LayoutConfigs : c.gutter = "horizontal" /\ ~c.has_palette }
    /\ board \in { b \in Boards : b.top = 10 }
    /\ chip_items = << >>
    /\ pc = "call"
    /\ err = ""
    /\ gutter_a = NoGutter
    /\ gutter_b = NoGutter
    /\ iterator = NoIterator
    /\ completed = << >>
    /\ rect_style = [r \in RectIds |-> ""]
    /\ assignments = << >>
    /\ next_calls = 0
    /\ vresult = NoResult
    /\ in_call = FALSE
    /\ returned = << >>
    /\ call \in FunctionCalls
    /\ result = NoCall
    /\ selection = << >>
    /\ window = NoWindow

run_vars ==
    <<cfg, board, chip_items, err, gutter_a, gutter_b, iterator, completed,
      rect_style, assignments, next_calls, vresult, in_call, returned, call,
      selection, window>>

\* Gutter.get_position_size(width, height)
CallGetPositionSize ==
    /\ pc = "call"
    /\ call.fn = "get_position_size"
    /\ result' = Returned(get_position_size(call.gutter, call.width, call.height))
    /\ pc' = "returned"
    /\ UNCHANGED run_vars

\* Gutter.get_image_position_size(width, height)
CallGetImagePositionSize ==
    /\ pc = "call"
    /\ call.fn = "get_image_position_size"
    /\ result' = Returned(get_image_position_size(call.gutter, call.width, call.height))
    /\ pc' = "returned"
    /\ UNCHANGED run_vars

\* Annotation.draw_text: the title box, then the description box.
CallDrawText ==
    /\ pc = "call"
    /\ call.fn = "draw_text"
    /\ result' =
          Returned([title |-> get_text_position_size(call.gutter, call.width,
                                                     call.height, FALSE),
                    desc |-> get_text_position_size(call.gutter, call.width,
                                                    call.height, TRUE)])
    /\ pc' = "returned"
    /\ UNCHANGED run_vars

\* closest_gutter(annotation, gutter_a, gutter_b)
CallClosestGutter ==
    /\ pc = "call"
    /\ call.fn = "closest_gutter"
    /\ result' = Returned(closest_gutter(call.rectangle, call.gutter, call.gutter_b))
    /\ pc' = "returned"
    /\ UNCHANGED run_vars

\* Lines 965-970: the loop over INKSCAPE_SVG.xpath("//svg:image"), from
\* element i on, with the local variables size and board_image.
RECURSIVE largest_image(_, _, _, _)
largest_image(doc, i, size, board_image) ==
    IF i > Len(doc) THEN board_image
    ELSE IF doc[i].tag # "image" THEN largest_image(doc, i + 1, size, board_image)
    ELSE LET image_size == doc[i].width * doc[i].height
         IN  IF image_size > size
               THEN largest_image(doc, i + 1, image_size, doc[i])
               ELSE largest_image(doc, i + 1, size, board_image)

\* find_board_image(), lines 953-975, on the document doc.
find_board_image(doc) ==
    LET flagged == { i \in 1..Len(doc) : doc[i].id = "board" }
        by_id == IF flagged = {} THEN NoElement
                 ELSE doc[CHOOSE i \in flagged : \A k \in flagged : i <= k]
    IN  IF by_id # NoElement /\ by_id.tag = "image" THEN Returned(by_id)
        ELSE IF \E i \in 1..Len(doc) : doc[i].tag = "image" /\ ~doc[i].sized
               THEN Raised("TypeError")
        ELSE LET board_image == largest_image(doc, 1, 0, by_id)
             IN  IF board_image # NoElement THEN Returned(board_image)
                 ELSE Raised("RuntimeError")

\* find_board_image()
CallFindBoardImage ==
    /\ pc = "call"
    /\ call.fn = "find_board_image"
    /\ result' = find_board_image(call.document)
    /\ pc' = "returned"
    /\ UNCHANGED run_vars

\* Annotation.draw(gutter) for a new Annotation with the image size of the
\* call: the Annotation with its boxes.
CallDraw ==
    /\ pc = "call"
    /\ call.fn = "draw"
    /\ result' = Returned(draw(Annotation(NoRectangle,
                                          Chip("", call.width, call.height), ""),
                               "a", call.gutter, 1))
    /\ pc' = "returned"
    /\ UNCHANGED run_vars

FunctionNext ==
    \/ CallFindBoardImage
    \/ CallDraw
    \/ CallGetPositionSize
    \/ CallGetImagePositionSize
    \/ CallDrawText
    \/ CallClosestGutter

FunctionSpec == FunctionInit /\ [][FunctionNext]_vars

(***************************************************************************)
(* The extension from effect() on: the selection is checked and sorted,    *)
(* the SelectionWindow is built, and the user matches chips to the         *)
(* rectangles until Apply hands the rows to annotate_board.                *)
(***************************************************************************)
MaxSelected == 2

\* A selected element that is not a rectangle.
OtherElement ==
    [id |-> "p1", left |-> 15, top |-> 15, right |-> 17, bottom |-> 17, tx |-> 0, ty |-> 0]

\* str(item)
TagOf(item) == IF item \in Rectangles THEN "rect" ELSE "path"

\* What the user can select: three rectangles, two of them with the same
\* centre x and two with the same centre y, and the other element.
Selectable ==
    { r \in Rectangles : r.id \in { "r1", "r2", "r3" } } \cup { OtherElement }

\* INKSCAPE_SVG.selection: up to MaxSelected different elements, in the
\* order they were selected.
Selections ==
    UNION { { sel \in [1..n -> Selectable] :
                \A i, j \in 1..n : sel[i] = sel[j] => i = j } :
            n \in 0..MaxSelected }

WindowConfigs ==
    { c \in LayoutConfigs : ~c.has_palette \/ (c.palette = "custom" /\ ~c.has_colors) }

\* A faulty sorted: the key is the centre's x whatever the orientation.
sorted_by_x(sel, gutter) ==
    LET key(i) == SortKey(sel[i], "horizontal")
        rank(i) == Cardinality({ j \in 1..Len(sel) :
                                   \/ key(j) < key(i)
                                   \/ key(j) = key(i) /\ j < i }) + 1
    IN  [k \in 1..Len(sel) |-> sel[CHOOSE i \in 1..Len(sel) : rank(i) = k]]

\* sorted(INKSCAPE_SVG.selection, key=...): ascending, equal keys in the
\* order of the selection.
sorted(sel, gutter) ==
    LET key(i) == SortKey(sel[i], gutter)
        rank(i) == Cardinality({ j \in 1..Len(sel) :
                                   \/ key(j) < key(i)
                                   \/ key(j) = key(i) /\ j < i }) + 1
    IN  [k \in 1..Len(sel) |-> sel[CHOOSE i \in 1..Len(sel) : rank(i) = k]]

\* BoardAnnotateExtension.sort_check_selection
sort_check_selection(sel, gutter) ==
    IF Len(sel) = 0 THEN Raised("AbortExtension")
    ELSE IF \E i \in 1..Len(sel) : TagOf(sel[i]) # "rect" THEN Raised("AbortExtension")
    ELSE IF gutter \in { "horizontal", "vertical" } THEN Returned(sorted(sel, gutter))
    ELSE Raised("ValueError")

\* The sensitivity the Apply button is built with.
InitialApplySensitive == FALSE

\* SelectionWindow.populate_status_bar: the count it returns.
populate_status_bar(items) ==
    Len(items) - Cardinality({ i \in 1..Len(items) : items[i].chip # "" })

\* What a handler leaves behind: the rows of selection_items and the widgets.
Shown(items, w) == [items |-> items, window |-> w]

\* A faulty update_match: the Apply button is enabled and never disabled.
update_match_only_enabling(items, w) ==
    LET matched == IF w.path # 0 /\ w.row # 0
                     THEN [items EXCEPT ![w.path].chip = chip_items[w.row].name]
                     ELSE items
        remaining == populate_status_bar(matched)
    IN  Shown(matched, [w EXCEPT !.remaining = remaining,
                                 !.sensitive = @ \/ (remaining = 0)])

\* SelectionWindow.update_match(box)
update_match(items, w) ==
    LET matched == IF w.path # 0 /\ w.row # 0
                     THEN [items EXCEPT ![w.path].chip = chip_items[w.row].name]
                     ELSE items
        remaining == populate_status_bar(matched)
    IN  Shown(matched, [w EXCEPT !.remaining = remaining,
                                 !.sensitive = (remaining = 0)])

\* SelectionWindow.check_unselect_match(box)
check_unselect_match(items, w) ==
    update_match(IF w.row = 0 /\ w.path # 0
                   THEN [items EXCEPT ![w.path].chip = ""]
                   ELSE items,
                 w)

\* chip_list_box.select_row(row i) or, for i = 0, unselect_all(): when the
\* selected row changes, 'selected-rows-changed' runs check_unselect_match.
select_row(items, w, i) ==
    IF w.row = i THEN Shown(items, w)
    ELSE check_unselect_match(items, [w EXCEPT !.row = i])

\* chip_reverse.set_active(active): when the state changes, 'toggled' runs
\* update_reverse.
set_active(items, w, active) ==
    IF w.reverse = active THEN Shown(items, w)
    ELSE Shown(IF w.path # 0 THEN [items EXCEPT ![w.path].on_reverse = active]
                             ELSE items,
               [w EXCEPT !.reverse = active])

\* SelectionWindow.update_selection, run on 'selection-changed' of the icon
\* view; w.path is the new selection.
update_selection(items, w) ==
    IF w.path = 0
      THEN LET cleared == set_active(items, w, FALSE)
           IN  select_row(cleared.items, cleared.window, 0)
      ELSE LET shown == set_active(items, w, items[w.path].on_reverse)
               match == shown.items[w.path].chip
           IN  IF match # ""
                 THEN select_row(shown.items, shown.window,
                                 Min({ i \in 1..Len(chip_items) :
                                         chip_items[i].name = match }))
                 ELSE select_row(shown.items, shown.window, 0)

WindowInit ==
    /\ cfg \in WindowConfigs
    /\ board \in { b \in Boards : b.top = 10 }
    /\ chip_items \in Catalogs
    /\ pc = "effect"
    /\ err = ""
    /\ gutter_a = NoGutter
    /\ gutter_b = NoGutter
    /\ iterator = NoIterator
    /\ completed = << >>
    /\ rect_style = [r \in RectIds |-> ""]
    /\ assignments = << >>
    /\ next_calls = 0
    /\ vresult = NoResult
    /\ in_call = FALSE
    /\ returned = << >>
    /\ call = NoCall
    /\ result = NoCall
    /\ selection \in Selections
    /\ window = NoWindow

\* What no step of the window changes.
engine_vars ==
    <<cfg, board, chip_items, gutter_a, gutter_b, iterator, completed,
      rect_style, next_calls, in_call, returned, call, selection>>

\* BoardAnnotateExtension.effect: validate_colors, sort_check_selection,
\* then SelectionWindow.__init__, which selects the first rectangle.
Effect ==
    /\ pc = "effect"
    /\ vresult' = validate_colors(cfg)
    /\ UNCHANGED engine_vars
    /\ IF validate_colors(cfg).status # "ok"
         THEN /\ pc' = "error"
              /\ err' = "AbortExtension"
              /\ UNCHANGED <<assignments, result, window>>
         ELSE LET sorted_selection == sort_check_selection(selection, cfg.gutter)
              IN  /\ result' = sorted_selection
                  /\ IF sorted_selection.raised # ""
                       THEN /\ pc' = "error"
                            /\ err' = "AbortExtension"
                            /\ UNCHANGED <<assignments, window>>
                       ELSE LET items == [i \in 1..Len(sorted_selection.value) |->
                                            [rect |-> sorted_selection.value[i],
                                             chip |-> "", on_reverse |-> FALSE]]
                                built == [path |-> 0, row |-> 0, reverse |-> FALSE,
                                          sensitive |-> InitialApplySensitive,
                                          remaining |-> -1]
                                first == update_selection(items, [built EXCEPT !.path = 1])
                            IN  /\ assignments' = first.items
                                /\ window' = [first.window EXCEPT
                                                !.remaining = populate_status_bar(first.items)]
                                /\ pc' = "window"
                                /\ err' = ""

\* The user clicks row i of the chip list: the row is selected, then
\* 'row-activated' runs update_match.
ActivateRow(i) ==
    /\ pc = "window"
    /\ LET selected == select_row(assignments, window, i)
           activated == update_match(selected.items, selected.window)
       IN  /\ assignments' = activated.items
           /\ window' = activated.window
    /\ UNCHANGED <<pc, err, vresult, result>>
    /\ UNCHANGED engine_vars

\* SelectionWindow.unselect_chip_list_box
UnselectChip ==
    /\ pc = "window"
    /\ LET cleared == select_row(assignments, window, 0)
       IN  /\ assignments' = cleared.items
           /\ window' = cleared.window
    /\ UNCHANGED <<pc, err, vresult, result>>
    /\ UNCHANGED engine_vars

\* The icon view's selection becomes rectangle j, or nothing for j = 0
\* (a click, or prev_selection and next_selection).
SelectItem(j) ==
    /\ pc = "window"
    /\ j # window.path
    /\ LET moved == update_selection(assignments, [window EXCEPT !.path = j])
       IN  /\ assignments' = moved.items
           /\ window' = moved.window
    /\ UNCHANGED <<pc, err, vresult, result>>
    /\ UNCHANGED engine_vars

\* The user toggles the 'On Reverse' checkbox.
ToggleReverse ==
    /\ pc = "window"
    /\ LET toggled == set_active(assignments, window, ~window.reverse)
       IN  /\ assignments' = toggled.items
           /\ window' = toggled.window
    /\ UNCHANGED <<pc, err, vresult, result>>
    /\ UNCHANGED engine_vars

\* SelectionWindow.on_apply_clicked: only a sensitive button is clicked.
Apply ==
    /\ pc = "window"
    /\ window.sensitive
    /\ pc' = "applied"
    /\ UNCHANGED <<err, vresult, result, assignments, window>>
    /\ UNCHANGED engine_vars

WindowNext ==
    \/ Effect
    \/ \E i \in 1..Len(chip_items) : ActivateRow(i)
    \/ UnselectChip
    \/ \E j \in 0..Len(assignments) : SelectItem(j)
    \/ ToggleReverse
    \/ Apply

WindowSpec == WindowInit /\ [][WindowNext]_vars

(***************************************************************************)
(* Properties.                                                             *)
(***************************************************************************)
Running == pc \in { "loop", "done" }

Drawn == { j \in 1..Len(completed) : completed[j].gutter # "none" }

\* The Annotations drawn before completed[j], plus itself.
DrawnRank(j) == Cardinality({ i \in Drawn : i <= j })

\* Both gutters have depth for an image and the catalog names each chip once.
WellFormed ==
    /\ gutter_a.image_display_size > 0
    /\ gutter_b.image_display_size > 0
    /\ \A i, j \in 1..Len(chip_items) :
          chip_items[i].name = chip_items[j].name => i = j

\* C1 as stated: after every processed assignment the indexes of the two
\* gutters differ by at most 1 (here already for gutters with depth and a
\* catalog without repeated names).
BalanceWithinOne ==
    (Running /\ WellFormed) => Abs(gutter_a.index - gutter_b.index) <= 1

\* C1, amended: after every processed assignment the indexes of the two
\* gutters differ by at most 2.
BalanceWithinTwo == Abs(gutter_a.index - gutter_b.index) <= 2

\* A run in which one gutter is two Annotations ahead of the other.
BalanceAtTwo == Running /\ Abs(gutter_a.index - gutter_b.index) = 2

\* C2: a chip name that occurs N >= 1 times among the processed assignments
\* has exactly one drawn Annotation, which holds exactly N connectors, one
\* from each of the N rectangles and all ending at its surround; no other
\* Annotation object of that name holds a connector.
OneAnnotationPerChip ==
    Running =>
      \A name \in ChipNames :
        LET occ == { i \in 1..Len(assignments) : assignments[i].chip = name }
            drawn == { j \in Drawn : completed[j].name = name }
        IN  occ # {} =>
              /\ Cardinality(drawn) = 1
              /\ \A j \in drawn :
                    /\ Len(completed[j].connectors) = Cardinality(occ)
                    /\ { completed[j].connectors[k].start :
                            k \in 1..Len(completed[j].connectors) }
                         = { assignments[i].rect.id : i \in occ }
                    /\ \A k \in 1..Len(completed[j].connectors) :
                          completed[j].connectors[k].end = j
              /\ \A j \in 1..Len(completed) :
                    (completed[j].name = name /\ j \notin drawn)
                       => completed[j].connectors = << >>

\* A finished run in which a chip name occurs three times, with another
\* chip's assignment between two of the occurrences.
ChipOccursThrice ==
    /\ pc = "done"
    /\ \E name \in ChipNames :
          /\ Cardinality({ i \in 1..Len(assignments) : assignments[i].chip = name }) = 3
          /\ \E i, j, k \in 1..Len(assignments) :
                /\ i < j /\ j < k
                /\ assignments[i].chip = name
                /\ assignments[j].chip # name
                /\ assignments[k].chip = name

PlacedInto(key) ==
    /\ Len(completed') = Len(completed) + 1
    /\ completed'[Len(completed')].gutter = key
    /\ completed'[Len(completed')].name \notin
          { completed[i].name : i \in 1..Len(completed) }

\* C3: from one processed assignment to the next neither gutter's offset
\* decreases, and it grows only in a step that places a new Annotation into
\* that gutter; this for every reference geometry, those whose gutters have
\* no depth included.
OffsetMonotone ==
    [][ /\ gutter_a'.offset >= gutter_a.offset
        /\ gutter_b'.offset >= gutter_b.offset
        /\ gutter_a'.offset > gutter_a.offset => PlacedInto("a")
        /\ gutter_b'.offset > gutter_b.offset => PlacedInto("b") ]_vars

\* A gutter without depth (negative image_display_size) has received two
\* Annotations and a duplicate has been processed.
NarrowGutterAdvanced ==
    /\ Running
    /\ \E g \in { gutter_a, gutter_b } :
          g.image_display_size < 0 /\ g.index >= 2 /\ g.offset > 0
    /\ Len(completed) > Cardinality(Drawn)

\* C4 as stated: a run that ends on an assignment whose chip is not in the
\* catalog has drawn nothing and advanced no gutter.
UnresolvedChipIsAtomic ==
    (pc = "error" /\ err = "AssertionError" /\ WellFormed) =>
       /\ completed = << >>
       /\ \A r \in RectIds : rect_style[r] = ""
       /\ gutter_a.index = 0 /\ gutter_a.offset = 0
       /\ gutter_b.index = 0 /\ gutter_b.offset = 0

\* C5 as stated: next() has been called once per drawn Annotation, and the
\* k-th drawn Annotation carries the k-th colour of the palette sequence
\* (here already for a catalog without repeated names).
ColourOnlyForFirstOccurrence ==
    (Running /\ WellFormed) =>
       /\ next_calls = Cardinality(Drawn)
       /\ \A j \in Drawn :
             completed[j].color =
                iterator.colors[((DrawnRank(j) - 1) % Len(iterator.colors)) + 1]

FirstOfName(i) ==
    Min({ j \in 1..Len(completed) : completed[j].name = completed[i].name })

\* C6: every duplicate occurrence carries the colour of the chip's drawn
\* Annotation: the duplicate's Annotation object, its restyled rectangle and
\* the connector added for it all have that colour, which is also the colour
\* of the original's own rectangle and connector.
DuplicatesTakeOriginalColour ==
    \A i \in 1..Len(completed) :
      completed[i].gutter = "none" =>
        LET orig == completed[FirstOfName(i)]
        IN  /\ orig.gutter # "none"
            /\ completed[i].color = orig.color
            /\ rect_style[completed[i].rectangle] = orig.color
            /\ rect_style[orig.rectangle] = orig.color
            /\ \E k \in 1..Len(orig.connectors) :
                  orig.connectors[k].start = completed[i].rectangle
            /\ \A k \in 1..Len(orig.connectors) :
                  orig.connectors[k].color = orig.color

\* The last assignment was a duplicate, and the colour next() returned for
\* it is not the colour it carries.
DuplicateRecoloured ==
    /\ Running
    /\ completed # << >>
    /\ completed[Len(completed)].gutter = "none"
    /\ iterator.pos >= 1
    /\ iterator.colors[iterator.pos] # completed[Len(completed)].color

\* C7 as stated: with a configuration validate_colors accepts, every call of
\* next() returns.
NextAlwaysReturns == in_call ~> ~in_call

\* C8: with a palette that is not random and has L colours, the n-th colour
\* returned is entry ((n - 1) mod L) + 1 of the list, and equals the colour
\* returned L calls earlier.
PaletteCycles ==
    (pc = "ready" /\ ~IsRandom(cfg) /\ returned # << >>) =>
       LET n == Len(returned)
           L == Len(BaseList(cfg))
       IN  /\ L > 0
           /\ returned[n] = BaseList(cfg)[((n - 1) % L) + 1]
           /\ n > L => returned[n] = returned[n - L]

\* The custom palette of two different colours has returned a third colour.
PaletteWrapped ==
    /\ pc = "ready"
    /\ PaletteOf(cfg) = "custom"
    /\ Len(BaseList(cfg)) = 2
    /\ BaseList(cfg)[1] # BaseList(cfg)[2]
    /\ Len(returned) = 3

BagOf(q) == [c \in Range(q) |-> Cardinality({ i \in 1..Len(q) : q[i] = c })]

\* C9: with a random palette of L colours the list is shuffled at
\* construction and cycled as it is: the last L colours returned, after any
\* number of calls, are the palette list as a multiset.
RandomWindowIsPalette ==
    (pc = "ready" /\ IsRandom(cfg)) =>
       LET n == Len(returned)
           L == Len(BaseList(cfg))
       IN  /\ BagOf(iterator.colors) = BagOf(BaseList(cfg))
           /\ (L > 0 /\ n >= L) =>
                 BagOf(SubSeq(returned, n - L + 1, n)) = BagOf(BaseList(cfg))

\* The shuffled full palette, not in its configured order, has gone round:
\* the window of the last L colours starts in the middle of the list.
RandomWrapped ==
    /\ pc = "ready"
    /\ PaletteOf(cfg) = "all_random"
    /\ iterator.colors # BaseList(cfg)
    /\ Len(returned) > Len(BaseList(cfg))

Known == BuiltinPalettes \cup { "custom", "custom_random" }

\* C10: validate_colors accepts a configuration without palette key and the
\* selectors default, light, dark, medium, all and all_random; custom and
\* custom_random fail without a colour list (missing list) and with a list
\* holding an unrecognized colour (naming one such colour of the list), and
\* are accepted otherwise; every other selector fails as unknown palette.
ValidateClassifies ==
    pc = "validated" =>
       /\ ~cfg.has_palette => vresult.status = "ok"
       /\ (cfg.has_palette /\ cfg.palette \in BuiltinPalettes) => vresult.status = "ok"
       /\ (cfg.has_palette /\ cfg.palette \in { "custom", "custom_random" }) =>
             /\ ~cfg.has_colors => vresult.status = "missing_list"
             /\ (cfg.has_colors /\ \E i \in 1..Len(cfg.colors) : ~IsColor(cfg.colors[i])) =>
                   /\ vresult.status = "invalid_color"
                   /\ vresult.named \in Range(cfg.colors)
                   /\ ~IsColor(vresult.named)
             /\ (cfg.has_colors /\ \A i \in 1..Len(cfg.colors) : IsColor(cfg.colors[i])) =>
                   vresult.status = "ok"
       /\ (cfg.has_palette /\ cfg.palette \notin Known) =>
             /\ vresult.status = "unknown_palette"
             /\ vresult.named = cfg.palette

\* validate_colors has rejected a custom palette that has no colour list.
MissingListRejected ==
    /\ pc = "validated"
    /\ cfg.has_palette /\ cfg.palette = "custom_random" /\ ~cfg.has_colors
    /\ vresult.status = "missing_list"

\* The palette configuration is one validate_colors is to reject.
BadPalette ==
    /\ cfg.has_palette
    /\ \/ cfg.palette \notin Known
       \/ /\ cfg.palette \in { "custom", "custom_random" }
          /\ \/ ~cfg.has_colors
             \/ \E i \in 1..Len(cfg.colors) : ~IsColor(cfg.colors[i])

BadOrientation == cfg.gutter \notin { "horizontal", "vertical" }

NothingLaidOut ==
    /\ assignments = << >>
    /\ completed = << >>
    /\ next_calls = 0
    /\ \A r \in RectIds : rect_style[r] = ""
    /\ gutter_a.index = 0 /\ gutter_a.offset = 0
    /\ gutter_b.index = 0 /\ gutter_b.offset = 0

\* C11: with a gutter orientation that is neither horizontal nor vertical,
\* or a palette configuration that is invalid, the run never enters the loop
\* over the assignments: it ends in the configuration error with no
\* assignment processed, no Annotation drawn, no colour taken and no gutter
\* advanced; and a run that ends in a configuration error has done none of
\* these.
ConfigErrorsBeforeLayout ==
    /\ (BadOrientation \/ BadPalette) =>
          /\ pc \in { "start", "error" }
          /\ pc = "error" => err = (IF BadOrientation THEN "ValueError"
                                                      ELSE "AbortExtension")
          /\ NothingLaidOut
    /\ (pc = "error" /\ err \in { "ValueError", "AbortExtension" }) =>
          /\ BadOrientation \/ BadPalette
          /\ NothingLaidOut

\* A run has been refused for its palette after both gutters were built.
PaletteRefusedAfterGutters ==
    /\ pc = "error"
    /\ err = "AbortExtension"
    /\ BadPalette
    /\ gutter_a.position # "" /\ gutter_b.position # ""

GutterOf(key) == IF key = "a" THEN gutter_a ELSE gutter_b

\* C12 as stated: no Gutter whose image_display_size is not positive
\* survives construction, so every drawn Annotation lies in a gutter whose
\* image_display_size is positive.
NoPlacementInNarrowGutter ==
    \A j \in Drawn : GutterOf(completed[j].gutter).image_display_size > 0

\* The step draws a new Annotation (no duplicate).
PlacesNew ==
    /\ Len(completed') = Len(completed) + 1
    /\ completed'[Len(completed')].gutter # "none"

\* C13: a step that places a new Annotation while gutter_a.index -
\* gutter_b.index > 1 places it in gutter_b, and while gutter_b.index -
\* gutter_a.index > 1 in gutter_a, whatever the rectangle; when the indexes
\* differ by at most 1 it is placed in the gutter closest_gutter returns.
ForcedBalance ==
    [][ PlacesNew =>
          LET placed == completed'[Len(completed')].gutter
              rect == assignments'[Len(assignments')].rect
          IN  /\ gutter_a.index - gutter_b.index > 1 => placed = "b"
              /\ gutter_b.index - gutter_a.index > 1 => placed = "a"
              /\ Abs(gutter_a.index - gutter_b.index) <= 1 =>
                    placed = closest_gutter(rect, gutter_a, gutter_b) ]_vars

\* Two Annotations were drawn in gutter_b and none in gutter_a, and the third
\* went to gutter_a although its rectangle is closer to gutter_b.
ForcedAgainstGeometry ==
    /\ Running
    /\ Len(completed) = 3
    /\ Drawn = 1..3
    /\ completed[1].gutter = "b" /\ completed[2].gutter = "b"
    /\ completed[3].gutter = "a"
    /\ closest_gutter(assignments[3].rect,
                      Gutter(gutter_a.position, board), gutter_b) = "b"

Done(fn) == pc = "returned" /\ call.fn = fn /\ result.raised = ""

\* The extent of a box along the gutter's depth (across the gutter) and
\* along its primary axis (the axis the offset runs on).
DepthExtent(g, box) == IF Horizontal(g) THEN box.height ELSE box.width

PrimaryExtent(g, box) == IF Horizontal(g) THEN box.width ELSE box.height

\* C18: for an image of w x h with w, h > 0 the box get_image_position_size
\* returns has width : height = w : h and is image_display_size deep, in
\* every gutter position.
ImageBoxKeepsAspect ==
    Done("get_image_position_size") =>
       /\ result.value.width * call.height = result.value.height * call.width
       /\ DepthExtent(call.gutter, result.value) = call.gutter.image_display_size

\* The image box of a 2 x 1 image in a LEFT gutter that has depth.
WideImageInLeftGutter ==
    /\ Done("get_image_position_size")
    /\ call.gutter.position = "LEFT"
    /\ call.gutter.image_display_size > 0
    /\ call.width = 2 /\ call.height = 1
    /\ result.value.width = 2 * result.value.height

NoImage == call.width = 0 \/ call.height = 0

\* C19 as stated: the surround of a chip without image is square (here
\* already for gutters whose image_display_size is positive).
SurroundWithoutImageIsSquare ==
    (Done("get_position_size") /\ NoImage /\ call.gutter.image_display_size > 0) =>
       result.value.width = result.value.height

\* C19, amended: for a chip without image (width or height 0) the surround
\* is computed as if width = height = image_display_size: along the primary
\* axis it measures image_display_size + stroke width, as for a square image,
\* and across the gutter it measures the gutter's depth - stroke width, as
\* every surround does; the two are equal only when the gutter's depth is
\* image_display_size + 2 stroke widths.
SurroundWithoutImage ==
    (Done("get_position_size") /\ NoImage) =>
       LET g == call.gutter
       IN  /\ PrimaryExtent(g, result.value) = g.image_display_size + StrokeWidth
           /\ DepthExtent(g, result.value) = g.gutter_size - StrokeWidth
           /\ (result.value.width = result.value.height) <=>
                 (g.gutter_size = g.image_display_size + 2 * StrokeWidth)

\* The surround of a chip whose pixbuf has width 0 and height 1, in a gutter
\* that has depth: it is not square.
OblongSurroundWithoutImage ==
    /\ Done("get_position_size")
    /\ call.width = 0 /\ call.height = 1
    /\ call.gutter.image_display_size > 0
    /\ result.value.width # result.value.height

\* The depth of the gutter left between the image slot and the canvas edge,
\* without the stroke-wide insets on both sides.
RemainingDepth(g) == g.gutter_size - g.image_display_size - 2 * StrokeWidth

\* Where a box starts across the gutter.
DepthStart(g, box) == IF Horizontal(g) THEN box.y ELSE box.x

\* Where the remaining depth starts: at the inset from the canvas edge for
\* ABOVE and LEFT, behind the image slot for BELOW and RIGHT.
RemainingStart(g) ==
    IF g.position \in { "ABOVE", "LEFT" } THEN StrokeWidth
    ELSE g.main_image_edge + StrokeWidth + g.image_display_size

\* C17 as stated (boxes are in half units, so half of the remaining depth is
\* RemainingDepth): in every position title and description are each half
\* of the remaining depth deep, the title in the half next to the image
\* slot, the description in the half next to the canvas edge (here already
\* for gutters whose image_display_size is positive).
TextSplitsDepthInHalves ==
    (Done("draw_text") /\ call.gutter.image_display_size > 0) =>
       LET g == call.gutter
           title == result.value.title
           desc == result.value.desc
           inner == IF g.position \in { "ABOVE", "LEFT" }
                      THEN 2 * RemainingStart(g) + RemainingDepth(g)
                      ELSE 2 * RemainingStart(g)
           outer == IF g.position \in { "ABOVE", "LEFT" }
                      THEN 2 * RemainingStart(g)
                      ELSE 2 * RemainingStart(g) + RemainingDepth(g)
       IN  /\ DepthExtent(g, title) = RemainingDepth(g)
           /\ DepthExtent(g, desc) = RemainingDepth(g)
           /\ DepthStart(g, title) = inner
           /\ DepthStart(g, desc) = outer

\* C17, amended (boxes in half units).  ABOVE and BELOW: title and
\* description split the remaining depth into two equal halves, the title
\* the upper one (at the canvas edge for ABOVE, at the image slot for BELOW),
\* both as wide as the image slot.  LEFT and RIGHT: both boxes start where
\* the remaining depth starts and are equally deep (the remaining depth for
\* RIGHT, a stroke width more for LEFT), and they split the image slot's
\* height into two equal halves, the title the upper one.
TextBoxLayout ==
    Done("draw_text") =>
       LET g == call.gutter
           title == result.value.title
           desc == result.value.desc
           w == IF NoImage THEN g.image_display_size ELSE call.width
           h == IF NoImage THEN g.image_display_size ELSE call.height
       IN  IF Horizontal(g)
             THEN /\ title.height = RemainingDepth(g)
                  /\ desc.height = RemainingDepth(g)
                  /\ title.y = 2 * RemainingStart(g)
                  /\ desc.y = title.y + title.height
                  /\ title.x = 2 * (g.offset + StrokeWidth)
                  /\ desc.x = title.x
                  /\ title.width = 2 * Scaled(g.image_display_size, w, h)
                  /\ desc.width = title.width
             ELSE /\ title.x = 2 * RemainingStart(g)
                  /\ desc.x = title.x
                  /\ title.width =
                        2 * (RemainingDepth(g)
                               + (IF g.position = "LEFT" THEN StrokeWidth ELSE 0))
                  /\ desc.width = title.width
                  /\ title.height = Scaled(g.image_display_size, h, w)
                  /\ desc.height = title.height
                  /\ title.y = 2 * (g.offset + StrokeWidth)
                  /\ desc.y = title.y + title.height

\* The text boxes of a 1 x 2 image in a RIGHT gutter that has depth: the
\* description lies below the title, not beside it.
TextStackedInRightGutter ==
    /\ Done("draw_text")
    /\ call.gutter.position = "RIGHT"
    /\ call.gutter.image_display_size > 0
    /\ call.width = 1 /\ call.height = 2
    /\ result.value.desc.x = result.value.title.x
    /\ result.value.desc.y > result.value.title.y

\* The largest k with k * k <= n, for 0 <= n < 46340 * 46340.
RECURSIVE SqrtBetween(_, _, _)
SqrtBetween(n, lo, hi) ==
    IF lo = hi THEN lo
    ELSE LET mid == (lo + hi + 1) \div 2
         IN  IF mid * mid <= n THEN SqrtBetween(n, mid, hi)
             ELSE SqrtBetween(n, lo, mid - 1)

ISqrt(n) == SqrtBetween(n, 0, 46340)

\* The squared distance from the nearest of the rectangle's four corners,
\* moved by its transform, to the point c.
NearestSquared(rect, c) ==
    LET xs == { rect.left + rect.tx, rect.right + rect.tx }
        ys == { rect.top + rect.ty, rect.bottom + rect.ty }
        squares == { (x - c[1]) * (x - c[1]) + (y - c[2]) * (y - c[2]) :
                       x \in xs, y \in ys }
    IN  CHOOSE d \in squares : \A e \in squares : d <= e

\* A distance in hundredths of a unit, rounded down.
Hundredths(squared) == ISqrt(10000 * squared)

\* C14: closest_gutter scores each gutter by the sum, over its two
\* approximate corners, of the distance from the nearest corner of the
\* moved rectangle; it returns the gutter with the smaller score and, when
\* the scores are equal, gutter_a.  Each distance lies between its
\* rounded-down hundredths and one hundredth more, so a score that is
\* smaller by two hundredths or more is known to be smaller; scores made of
\* the same two distances are known to be equal.
ClosestScoreDecides ==
    Done("closest_gutter") =>
       LET ca == get_approximate_corners(call.gutter)
           cb == get_approximate_corners(call.gutter_b)
           a1 == NearestSquared(call.rectangle, ca[1])
           a2 == NearestSquared(call.rectangle, ca[2])
           b1 == NearestSquared(call.rectangle, cb[1])
           b2 == NearestSquared(call.rectangle, cb[2])
           low_a == Hundredths(a1) + Hundredths(a2)
           low_b == Hundredths(b1) + Hundredths(b2)
       IN  /\ low_a + 2 <= low_b => result.value = "a"
           /\ low_b + 2 <= low_a => result.value = "b"
           /\ ((a1 = b1 /\ a2 = b2) \/ (a1 = b2 /\ a2 = b1)) => result.value = "a"

\* An exact tie: a rectangle in the middle between two gutters with equal
\* offsets, moved there by its transform, and gutter_a returned.
TieGoesToGutterA ==
    /\ Done("closest_gutter")
    /\ call.rectangle.tx # 0
    /\ call.gutter.offset = call.gutter_b.offset
    /\ NearestSquared(call.rectangle, get_approximate_corners(call.gutter)[1])
         = NearestSquared(call.rectangle, get_approximate_corners(call.gutter_b)[1])
    /\ NearestSquared(call.rectangle, get_approximate_corners(call.gutter)[2])
         = NearestSquared(call.rectangle, get_approximate_corners(call.gutter_b)[2])
    /\ result.value = "a"

\* What is drawn for an Annotation: its gutter and its boxes.
Geometry(annotation) ==
    [ name |-> annotation.name, rectangle |-> annotation.rectangle,
      gutter |-> annotation.gutter, surround |-> annotation.surround,
      svg_image |-> annotation.svg_image, title_box |-> annotation.title_box,
      desc_box |-> annotation.desc_box ]

NamesOf(done) == { done[i].name : i \in 1..Len(done) }

\* The step processes a row whose chip already has an Annotation.
ProcessesDuplicate ==
    /\ Len(assignments') = Len(assignments) + 1
    /\ assignments'[Len(assignments')].chip \in NamesOf(completed)

\* C15: a step changes neither the gutter nor a box of an Annotation that is
\* already in completed; a drawn Annotation is the first of its name and is
\* drawn for the rectangle of the first row that names its chip; a step for
\* a later row of that chip appends an Annotation object without gutter and
\* without boxes, and adds one connector to the drawn one, nothing else.
PlacementFrozen ==
    [][ /\ \A j \in 1..Len(completed) :
              /\ j <= Len(completed')
              /\ Geometry(completed'[j]) = Geometry(completed[j])
        /\ \A j \in 1..Len(completed') :
              completed'[j].gutter # "none" =>
                 /\ \A i \in 1..(j - 1) : completed'[i].name # completed'[j].name
                 /\ \E r \in 1..Len(assignments') :
                       /\ assignments'[r].chip = completed'[j].name
                       /\ \A q \in 1..(r - 1) :
                             assignments'[q].chip # completed'[j].name
                       /\ assignments'[r].rect.id = completed'[j].rectangle
        /\ ProcessesDuplicate =>
              /\ Len(completed') = Len(completed) + 1
              /\ LET added == completed'[Len(completed')]
                 IN  /\ added.gutter = "none"
                     /\ added.surround = NoBox /\ added.svg_image = NoBox
                     /\ added.title_box = NoBox /\ added.desc_box = NoBox
                     /\ added.connectors = << >>
              /\ \A j \in 1..Len(completed) :
                    IF completed[j].name = assignments'[Len(assignments')].chip
                         /\ completed[j].gutter # "none"
                      THEN /\ Len(completed'[j].connectors)
                                = Len(completed[j].connectors) + 1
                           /\ SubSeq(completed'[j].connectors, 1,
                                      Len(completed[j].connectors))
                                = completed[j].connectors
                      ELSE completed'[j].connectors = completed[j].connectors
      ]_vars

\* A chip was drawn, another chip was drawn in the other gutter, and then the
\* first chip was named again by a third row.
LaterOccurrenceJoined ==
    /\ Running
    /\ Len(completed) = 3
    /\ completed[1].gutter # "none"
    /\ completed[2].gutter \notin { "none", completed[1].gutter }
    /\ completed[3].gutter = "none"
    /\ completed[3].name = completed[1].name
    /\ Len(completed[1].connectors) = 2

\* C16: a step that processes a row whose chip already has an Annotation
\* changes neither gutter: index and offset of both stay as they are.
DuplicateLeavesGutters ==
    [][ ProcessesDuplicate =>
          /\ gutter_a'.index = gutter_a.index /\ gutter_a'.offset = gutter_a.offset
          /\ gutter_b'.index = gutter_b.index /\ gutter_b'.offset = gutter_b.offset
      ]_vars

\* Both gutters hold an Annotation, and the row processed last named the
\* chip drawn first again, after another chip.
DuplicateAfterBothGutters ==
    /\ Running
    /\ gutter_a.index = 1 /\ gutter_b.index = 1
    /\ Len(completed) = 3
    /\ completed[3].gutter = "none"
    /\ completed[3].name = completed[1].name
    /\ completed[2].name # completed[1].name
    /\ gutter_a.offset > 0 /\ gutter_b.offset > 0

ImagesOf(doc) == { i \in 1..Len(doc) : doc[i].tag = "image" }

\* Every image of the document has both attributes and a positive area.
ProperImages(doc) ==
    \A i \in ImagesOf(doc) : doc[i].sized /\ doc[i].width * doc[i].height > 0

\* C20: find_board_image returns the element whose id is 'board' when that
\* element is an image; otherwise it returns an image of the largest area
\* among the images of the document; it fails exactly when the document
\* holds no image; and what it returns is an image of the document.
\* Stated for documents whose images all have a positive area.
FindsAnImage ==
    (pc = "returned" /\ call.fn = "find_board_image"
        /\ ProperImages(call.document)) =>
       LET doc == call.document
           images == ImagesOf(doc)
           Area(i) == doc[i].width * doc[i].height
       IN  /\ (result.raised # "") <=> (images = {})
           /\ result.raised = "" =>
                 /\ \E i \in images : result.value = doc[i]
                 /\ IF \E i \in images : doc[i].id = "board"
                      THEN result.value.id = "board"
                      ELSE \E i \in images :
                              /\ result.value = doc[i]
                              /\ \A k \in images : Area(k) <= Area(i)

\* C21: a run of annotate_board that has processed no selection row and was
\* not refused for its configuration has raised no error, has drawn no
\* Annotation, has restyled no rectangle, and both gutters are at index 0
\* and offset 0, also once it has returned; a run that ends in an error
\* without having processed a row was given a bad configuration.
EmptyRunLaysOutNothing ==
    assignments = << >> =>
       /\ pc \in { "loop", "done" } =>
             /\ err = ""
             /\ completed = << >>
             /\ \A r \in RectIds : rect_style[r] = ""
             /\ gutter_a.index = 0 /\ gutter_a.offset = 0
             /\ gutter_b.index = 0 /\ gutter_b.offset = 0
       /\ pc = "error" => (BadOrientation \/ BadPalette)

\* annotate_board has returned from a run over no selection row.
EmptyRunReturned ==
    /\ pc = "done"
    /\ assignments = << >>
    /\ completed = << >>
    /\ gutter_a.position # "" /\ gutter_b.position # ""

\* C22: a step that draws a new Annotation advances the gutter it is drawn in
\* exactly once, with the width and height of the surround's bounding box:
\* that gutter's index grows by 1 and its offset by the surround's width plus
\* the separator for ABOVE and BELOW, by the surround's height plus the
\* separator for LEFT and RIGHT; nothing else of that gutter and nothing of
\* the other gutter changes.  Where the surround has the extents it was
\* computed with (none is negative), these are the computed ones.
AdvanceOncePerPlacement ==
    [][ PlacesNew =>
          LET new == completed'[Len(completed')]
              g == GutterOf(new.gutter)
              after == IF new.gutter = "a" THEN gutter_a' ELSE gutter_b'
              extent == IF Horizontal(g) THEN bounding_box(new.surround).width
                                         ELSE bounding_box(new.surround).height
              computed == IF Horizontal(g) THEN new.surround.width
                                           ELSE new.surround.height
          IN  /\ new.gutter \in { "a", "b" }
              /\ after = [g EXCEPT !.index = g.index + 1,
                                   !.offset = g.offset + extent + StrokeWidth]
              /\ computed >= 0 => after.offset = g.offset + computed + StrokeWidth
              /\ new.gutter = "a" => gutter_b' = gutter_b
              /\ new.gutter = "b" => gutter_a' = gutter_a ]_vars

\* A LEFT gutter with depth has received two Annotations and stands at the
\* sum of their surrounds' heights plus two separators.
LeftGutterAdvancedTwice ==
    /\ Running
    /\ gutter_a.position = "LEFT"
    /\ gutter_a.image_display_size > 0
    /\ gutter_a.index = 2
    /\ \E i, j \in Drawn :
          /\ i < j
          /\ completed[i].gutter = "a" /\ completed[j].gutter = "a"
          /\ gutter_a.offset = completed[i].surround.height
                                 + completed[j].surround.height + 2 * StrokeWidth

\* The eight squared distances between the four corners of the moved
\* rectangle and the two approximate corners of the gutter g, as a function
\* on the pairs <<rectangle corner, gutter corner>>.
EightSquared(rect, g) ==
    LET cs == get_approximate_corners(g)
    IN  [ pair \in { <<x, y, k>> : x \in { rect.left + rect.tx, rect.right + rect.tx },
                                   y \in { rect.top + rect.ty, rect.bottom + rect.ty },
                                   k \in { 1, 2 } } |->
            (pair[1] - cs[pair[3]][1]) * (pair[1] - cs[pair[3]][1])
              + (pair[2] - cs[pair[3]][2]) * (pair[2] - cs[pair[3]][2]) ]

\* The sum, in hundredths rounded down, of the two smallest of the eight
\* distances.
TwoSmallestOfEight(rect, g) ==
    LET d == EightSquared(rect, g)
        first == CHOOSE p \in DOMAIN d : \A q \in DOMAIN d : d[p] <= d[q]
        second == CHOOSE p \in DOMAIN d \ { first } :
                     \A q \in DOMAIN d \ { first } : d[p] <= d[q]
    IN  Hundredths(d[first]) + Hundredths(d[second])

\* The sum, in hundredths rounded down, of the smallest of the four
\* distances to the gutter's first approximate corner and the smallest of the
\* four distances to its second.
SmallestPerCorner(rect, g) ==
    LET d == EightSquared(rect, g)
        to(k) == { p \in DOMAIN d : p[3] = k }
        least(k) == CHOOSE p \in to(k) : \A q \in to(k) : d[p] <= d[q]
    IN  Hundredths(d[least(1)]) + Hundredths(d[least(2)])

\* C23 as stated: the score of a gutter is the sum of the two smallest of
\* the eight distances, so the gutter whose sum is smaller (by two hundredths
\* or more, the margin of the rounding) is the one returned.
ScoreIsTwoSmallestOfEight ==
    (Done("closest_gutter") /\ call.gutter.image_display_size > 0
        /\ call.gutter_b.image_display_size > 0) =>
       LET low_a == TwoSmallestOfEight(call.rectangle, call.gutter)
           low_b == TwoSmallestOfEight(call.rectangle, call.gutter_b)
       IN  /\ low_a + 2 <= low_b => result.value = "a"
           /\ low_b + 2 <= low_a => result.value = "b"

\* C23, amended: the score of a gutter is the smallest of the four distances
\* to its first approximate corner plus the smallest of the four distances
\* to its second; the gutter with the smaller such score is returned, also
\* where the sums of the two smallest of the eight distances are in the
\* opposite order.
ScoreIsSmallestPerCorner ==
    Done("closest_gutter") =>
       LET low_a == SmallestPerCorner(call.rectangle, call.gutter)
           low_b == SmallestPerCorner(call.rectangle, call.gutter_b)
           two_a == TwoSmallestOfEight(call.rectangle, call.gutter)
           two_b == TwoSmallestOfEight(call.rectangle, call.gutter_b)
       IN  /\ low_a + 2 <= low_b => result.value = "a"
           /\ low_b + 2 <= low_a => result.value = "b"
           /\ two_a <= low_a + 1 /\ two_b <= low_b + 1

\* The two readings disagree: the two smallest of the eight distances give
\* one gutter the smaller sum, the per-corner minima give it to the other,
\* and that other one is returned.
ScoresDisagree ==
    /\ Done("closest_gutter")
    /\ call.gutter.image_display_size > 0
    /\ call.gutter_b.image_display_size > 0
    /\ LET low_a == SmallestPerCorner(call.rectangle, call.gutter)
           low_b == SmallestPerCorner(call.rectangle, call.gutter_b)
           two_a == TwoSmallestOfEight(call.rectangle, call.gutter)
           two_b == TwoSmallestOfEight(call.rectangle, call.gutter_b)
       IN  \/ low_a + 2 <= low_b /\ two_b + 2 <= two_a /\ result.value = "a"
           \/ low_b + 2 <= low_a /\ two_a + 2 <= two_b /\ result.value = "b"

\* The rows of selection_items that have no chip match.
Unmatched == { i \in 1..Len(assignments) : assignments[i].chip = "" }

BadSelection ==
    \/ selection = << >>
    \/ \E i \in 1..Len(selection) : TagOf(selection[i]) # "rect"

\* No window was built and nothing was placed.
NothingStarted ==
    /\ pc = "error"
    /\ window = NoWindow
    /\ assignments = << >>
    /\ completed = << >>
    /\ gutter_a = NoGutter /\ gutter_b = NoGutter

\* Twice the centre coordinate of a rectangle along the orientation's axis.
Centre2(rect) ==
    IF cfg.gutter = "horizontal" THEN (rect.left + rect.tx) + (rect.right + rect.tx)
    ELSE (rect.top + rect.ty) + (rect.bottom + rect.ty)

\* C25: once effect() has called sort_check_selection, an empty selection
\* or one with a non-rectangle has aborted, any orientation other than
\* horizontal and vertical has raised ValueError (which effect turns into an
\* abort), in both cases with no window built and nothing placed; otherwise
\* the value returned holds the selected rectangles, each once, ascending by
\* centre x for horizontal and by centre y for vertical, and the rows of
\* the window are in that order.
SelectionSortedOrRefused ==
    (pc # "effect" /\ result # NoCall) =>
       IF BadSelection
         THEN result = Raised("AbortExtension") /\ NothingStarted
       ELSE IF cfg.gutter \notin { "horizontal", "vertical" }
         THEN /\ result = Raised("ValueError")
              /\ err = "AbortExtension"
              /\ NothingStarted
       ELSE /\ result.raised = ""
            /\ Len(result.value) = Len(selection)
            /\ Range(result.value) = Range(selection)
            /\ \A i \in 1..(Len(result.value) - 1) :
                  Centre2(result.value[i]) <= Centre2(result.value[i + 1])
            /\ pc \in { "window", "applied" }
            /\ Len(assignments) = Len(selection)
            /\ \A i \in 1..Len(assignments) : assignments[i].rect = result.value[i]

\* Two rectangles selected from the lower to the upper one were put in
\* order for a vertical gutter pair.
SelectionReordered ==
    /\ pc = "window"
    /\ cfg.gutter = "vertical"
    /\ Len(selection) = 2
    /\ Centre2(selection[1]) > Centre2(selection[2])
    /\ assignments[1].rect = selection[2]
    /\ assignments[2].rect = selection[1]

\* C26: the indexes of the two gutters never differ by more than 2, before
\* and after every step of a layout run; and a step that draws a new
\* Annotation while they differ by 2 draws it in the gutter with the smaller
\* index, whatever was processed since the difference arose, so that they
\* differ by 1 afterwards.
DifferenceOfTwoIsRepaid ==
    [][ /\ Abs(gutter_a.index - gutter_b.index) <= 2
        /\ Abs(gutter_a'.index - gutter_b'.index) <= 2
        /\ (PlacesNew /\ Abs(gutter_a.index - gutter_b.index) = 2) =>
              /\ completed'[Len(completed')].gutter =
                    (IF gutter_a.index < gutter_b.index THEN "a" ELSE "b")
              /\ Abs(gutter_a'.index - gutter_b'.index) = 1 ]_vars

\* Two Annotations went to one gutter, then a duplicate was processed, and
\* the next new Annotation went to the other gutter.
RepaidAfterDuplicate ==
    /\ Running
    /\ Len(completed) = 4
    /\ completed[1].gutter # "none"
    /\ completed[2].gutter = completed[1].gutter
    /\ completed[3].gutter = "none"
    /\ completed[4].gutter \notin { "none", completed[1].gutter }
    /\ Abs(gutter_a.index - gutter_b.index) = 1

\* A box of whole units in half units, as the text boxes are.
Doubled(box) ==
    [x |-> 2 * box.x, y |-> 2 * box.y, width |-> 2 * box.width,
     height |-> 2 * box.height]

\* The interiors of two boxes have a point in common.
Overlap(p, q) ==
    /\ p.x < q.x + q.width /\ q.x < p.x + p.width
    /\ p.y < q.y + q.height /\ q.y < p.y + p.height

Inside(p, q) ==
    /\ q.x <= p.x /\ p.x + p.width <= q.x + q.width
    /\ q.y <= p.y /\ p.y + p.height <= q.y + q.height

\* C27: for an Annotation with an image (w, h > 0) drawn in a gutter with
\* depth, whatever the position, no two of image box, title box and
\* description box have interior points in common, and each of the three
\* lies inside the surround.
BoxesDisjointInsideSurround ==
    (Done("draw") /\ call.width > 0 /\ call.height > 0
        /\ call.gutter.image_display_size > 0) =>
       LET image == Doubled(result.value.svg_image)
           surround == Doubled(result.value.surround)
           title == result.value.title_box
           desc == result.value.desc_box
       IN  /\ ~Overlap(image, title)
           /\ ~Overlap(image, desc)
           /\ ~Overlap(title, desc)
           /\ Inside(image, surround)
           /\ Inside(title, surround)
           /\ Inside(desc, surround)

\* Where a box starts along the primary axis of the gutter g.
PrimaryStart(g, box) == IF Horizontal(g) THEN box.x ELSE box.y

\* The drawn Annotations of the gutter key, in the order they were drawn.
DrawnIn(key) == { j \in Drawn : completed[j].gutter = key }

\* C28: in a gutter whose image_display_size is positive, the surround of
\* the first Annotation starts half a separator from the canvas edge, the
\* surround of every later Annotation starts exactly one separator after the
\* end of the surround drawn before it in that gutter, and no two surrounds
\* of the gutter overlap along the primary axis; this after every processed
\* row, duplicates included.
SurroundsInARow ==
    Running =>
      \A key \in { "a", "b" } :
        LET g == GutterOf(key)
            Start(j) == PrimaryStart(g, completed[j].surround)
            End(j) == Start(j) + PrimaryExtent(g, completed[j].surround)
        IN  g.image_display_size > 0 =>
              \A j \in DrawnIn(key) :
                 /\ PrimaryExtent(g, completed[j].surround) > 0
                 /\ LET before == { i \in DrawnIn(key) : i < j }
                    IN  IF before = {}
                          THEN 2 * Start(j) = StrokeWidth
                          ELSE Start(j) = End(Max(before)) + StrokeWidth
                 /\ \A i \in DrawnIn(key) : i < j => End(i) < Start(j)
                 /\ j = Max(DrawnIn(key)) => 2 * g.offset = 2 * End(j) + StrokeWidth

\* A gutter with depth holds two Annotations, and a duplicate was processed
\* between them.
TwoSurroundsAroundDuplicate ==
    /\ Running
    /\ Len(completed) = 3
    /\ completed[1].gutter # "none"
    /\ completed[2].gutter = "none"
    /\ completed[3].gutter = completed[1].gutter
    /\ GutterOf(completed[1].gutter).image_display_size > 0
    /\ completed[3].surround # completed[1].surround

\* C29: after every processed row of a run that has not failed, the two
\* indexes add up to the number of different chip names among the rows
\* processed so far, and the index of each gutter is the number of drawn
\* Annotations whose gutter it is.
IndexesCountChips ==
    Running =>
       /\ gutter_a.index + gutter_b.index =
             Cardinality({ assignments[i].chip : i \in 1..Len(assignments) })
       /\ gutter_a.index = Cardinality({ j \in 1..Len(completed) : completed[j].gutter = "a" })
       /\ gutter_b.index = Cardinality({ j \in 1..Len(completed) : completed[j].gutter = "b" })

\* Four rows were processed that name two chips, both more than once, and
\* each gutter holds one Annotation.
TwoChipsInFourRows ==
    /\ Running
    /\ Len(assignments) = 4
    /\ Cardinality({ assignments[i].chip : i \in 1..Len(assignments) }) = 2
    /\ assignments[3].chip # assignments[4].chip
    /\ assignments[1].chip # assignments[2].chip
    /\ gutter_a.index = 1 /\ gutter_b.index = 1

\* C30: a step that handles a row as a duplicate connects it to the first
\* entry of completed with the row's chip name, and that entry was drawn: it
\* has a gutter and a surround; the step raises nothing.  In every state the
\* first entry of each name is a drawn one, and every connector ends at a
\* drawn entry, never at one created for a duplicate.
DuplicateJoinsDrawnAnnotation ==
    [][ /\ ProcessesDuplicate =>
              LET name == assignments'[Len(assignments')].chip
                  target == Min({ i \in 1..Len(completed) : completed[i].name = name })
              IN  /\ completed[target].gutter \in { "a", "b" }
                  /\ completed[target].surround # NoBox
                  /\ pc' # "error"
                  /\ Len(completed') = Len(completed) + 1
                  /\ LET added == completed'[target].connectors
                     IN  /\ Len(added) = Len(completed[target].connectors) + 1
                         /\ added[Len(added)].end = target
                         /\ added[Len(added)].start =
                               assignments'[Len(assignments')].rect.id
        /\ err' # "AttributeError"
        /\ \A j \in 1..Len(completed') :
              /\ (\A i \in 1..(j - 1) : completed'[i].name # completed'[j].name) =>
                    completed'[j].gutter \in { "a", "b" }
              /\ \A c \in 1..Len(completed'[j].connectors) :
                    LET end == completed'[j].connectors[c].end
                    IN  /\ end = j
                        /\ completed'[end].gutter \in { "a", "b" }
                        /\ completed'[end].surround # NoBox
      ]_vars

\* Three rows named the same chip: the first entry is drawn and holds the
\* three connectors, the two entries made for the duplicates hold none.
ThirdRowJoinsTheFirstEntry ==
    /\ Running
    /\ Len(completed) = 3
    /\ completed[2].name = completed[1].name
    /\ completed[3].name = completed[1].name
    /\ completed[1].gutter \in { "a", "b" }
    /\ completed[2].gutter = "none" /\ completed[3].gutter = "none"
    /\ Len(completed[1].connectors) = 3
    /\ completed[2].connectors = << >> /\ completed[3].connectors = << >>

\* The connectors drawn so far.
RECURSIVE ConnectorsDrawn(_)
ConnectorsDrawn(j) ==
    IF j = 0 THEN 0 ELSE Len(completed[j].connectors) + ConnectorsDrawn(j - 1)

\* C31 as stated: a run that has entered the loop (its orientation is valid
\* and its palette was accepted) comes to an end, in an error only for a row
\* whose chip name does not resolve; and a run that has returned has one
\* Annotation object per row, in the order of the rows, and has drawn as
\* many connectors as there are rows.
RunTerminates ==
    /\ (pc = "loop") ~> (pc = "done" \/ (pc = "error" /\ err = "AssertionError"))
    /\ [](pc = "done" =>
            /\ Len(completed) = Len(assignments)
            /\ \A i \in 1..Len(assignments) :
                  /\ completed[i].rectangle = assignments[i].rect.id
                  /\ completed[i].name = assignments[i].chip
            /\ ConnectorsDrawn(Len(completed)) = Len(assignments))


\* C32 as stated: with one of the palettes default, light, dark, medium and
\* all, of L colours, no two of the first L colours next() returns are the
\* same colour.
FirstCycleDistinct ==
    (pc = "ready"
       /\ PaletteOf(cfg) \in { "default", "light", "dark", "medium", "all" }) =>
       LET L == Len(BaseList(cfg))
       IN  \A i, j \in 1..Len(returned) :
              (i < j /\ j <= L) => returned[i] # returned[j]


\* C33: a step that places a new Annotation chooses the gutter from the two
\* gutters as they are before the step, and lays out the image, the surround
\* and both text boxes in the chosen gutter as it is before the step: the
\* choice and the queries move nothing.  The step changes the index and the
\* offset of the chosen gutter and no other field of it, and leaves the other
\* gutter as it is.
PlacementMovesChosenGutterOnly ==
    [][ PlacesNew =>
          LET new == completed'[Len(completed')]
              rect == assignments'[Len(assignments')].rect
              chosen == new.gutter
              g == GutterOf(chosen)
              after == IF chosen = "a" THEN gutter_a' ELSE gutter_b'
              other == IF chosen = "a" THEN gutter_b ELSE gutter_a
              other_after == IF chosen = "a" THEN gutter_b' ELSE gutter_a'
          IN  /\ chosen = ChooseGutter(rect, gutter_a, gutter_b)
              /\ new.surround = get_position_size(g, new.image_width,
                                                  new.image_height)
              /\ new.svg_image # NoBox =>
                    new.svg_image = get_image_position_size(g, new.image_width,
                                                            new.image_height)
              /\ new.title_box = get_text_position_size(g, new.image_width,
                                                        new.image_height, FALSE)
              /\ new.desc_box = get_text_position_size(g, new.image_width,
                                                       new.image_height, TRUE)
              /\ after.index # g.index
              /\ after.offset # g.offset
              /\ [after EXCEPT !.index = g.index, !.offset = g.offset] = g
              /\ other_after = other ]_vars

\* The second Annotation, with an image, is placed in gutter_b with depth,
\* while gutter_a holds the first one and stands where that one left it.
SecondPlacedInOtherGutter ==
    /\ Running
    /\ Len(completed) = 2
    /\ completed[1].gutter = "a" /\ completed[2].gutter = "b"
    /\ completed[2].svg_image # NoBox
    /\ gutter_a.image_display_size > 0 /\ gutter_b.image_display_size > 0
    /\ gutter_a.index = 1 /\ gutter_b.index = 1
    /\ gutter_a.offset = StrokeWidth +
          (IF Horizontal(gutter_a) THEN bounding_box(completed[1].surround).width
                                   ELSE bounding_box(completed[1].surround).height)

====
